---- MODULE Spec2Model ----
(***************************************************************************)
(* DoubleTick customer table: the deterministic record generators, the     *)
(* IndexedDB-backed store with its chunked ingestion, the hybrid query     *)
(* (getCustomers) and the CustomerTable navigation session.                *)
(*                                                                         *)
(* Strings are sequences of UTF-16 code units, so that toLowerCase,        *)
(* includes, padStart and the relational operators on strings are computed *)
(* as JavaScript computes them.  Times are in seconds instead of           *)
(* milliseconds so that every instant fits the checker's integers.         *)
(***************************************************************************)
EXTENDS Integers, Sequences, FiniteSets, TLC

(* ---------------------------------------------------------------------- *)
(* Sizes.  The source's sizes (1,000,000 logical rows, 10,000 stored rows, *)
(* chunks of 1,000, pages of 30) are scaled down; the definitions keep the *)
(* source's names and their order VIRTUAL_TOTAL > ACTUAL_STORED >          *)
(* ITEMS_PER_PAGE > 1, with a last chunk that the chunk size may or may    *)
(* not divide.                                                             *)
(* ---------------------------------------------------------------------- *)
\* indexedDB.js VIRTUAL_TOTAL (1000000 in the source)
VIRTUAL_TOTAL == 8
\* indexedDB.js ACTUAL_STORED (10000 in the source)
ACTUAL_STORED == 4
\* App.jsx: const [total] = useState(10000), the number of records ingested
AppTotal == 4
\* App.jsx: generateCustomerBatches(total, 1000), the chunk size
BATCH_SIZE == 2
\* CustomerTable.jsx ITEMS_PER_PAGE (30 in the source)
ITEMS_PER_PAGE == 3
\* Date.now() when the first session starts, in seconds
StartTime == 1790000000
\* how many times the clock is seen to advance
MaxTicks == 1
\* queries issued by one table session
MaxRequests == 3
\* store faults that the queries of one table session meet
MaxFaults == 1
\* direct calls of getCustomers explored by the query specification
MaxLimit == 3
\* chunk commits after which the ingestion is not started again
MaxCommitted == 3

Min(a, b) == IF a < b THEN a ELSE b
Max(a, b) == IF a > b THEN a ELSE b

(* ---------------------------------------------------------------------- *)
(* JavaScript strings as sequences of code units                           *)
(* ---------------------------------------------------------------------- *)
\* String.prototype.toLowerCase on the ASCII range
toLowerCase(s) == [i \in 1..Len(s) |-> IF s[i] >= 65 /\ s[i] <= 90 THEN s[i] + 32 ELSE s[i]]

\* String.prototype.includes
includes(s, t) == \E i \in 0..(Len(s) - Len(t)) : SubSeq(s, i + 1, i + Len(t)) = t

\* String(n) for an integer n >= 0: its decimal digits
RECURSIVE String(_)
String(n) == IF n < 10 THEN <<48 + n>> ELSE String(n \div 10) \o <<48 + (n % 10)>>

\* String.prototype.padStart(width, '0')
padStart(s, width) == [i \in 1..Max(0, width - Len(s)) |-> 48] \o s

\* a < b on strings: code unit by code unit, a proper prefix is smaller
StrLt(a, b) ==
  \E i \in 1..(Len(b)) :
     /\ \A j \in 1..(i - 1) : j <= Len(a) /\ a[j] = b[j]
     /\ \/ i = Len(a) + 1
        \/ i <= Len(a) /\ a[i] < b[i]

(* ---------------------------------------------------------------------- *)
(* Lookup tables                                                           *)
(* ---------------------------------------------------------------------- *)
(* dataGenerator.js firstNames, each name as its UTF-16 code units *)
firstNames ==
  <<
    <<74,97,109,101,115>>,  \* James
    <<77,97,114,121>>,  \* Mary
    <<74,111,104,110>>,  \* John
    <<80,97,116,114,105,99,105,97>>,  \* Patricia
    <<82,111,98,101,114,116>>,  \* Robert
    <<74,101,110,110,105,102,101,114>>,  \* Jennifer
    <<77,105,99,104,97,101,108>>,  \* Michael
    <<76,105,110,100,97>>,  \* Linda
    <<87,105,108,108,105,97,109>>,  \* William
    <<66,97,114,98,97,114,97>>,  \* Barbara
    <<68,97,118,105,100>>,  \* David
    <<69,108,105,122,97,98,101,116,104>>,  \* Elizabeth
    <<82,105,99,104,97,114,100>>,  \* Richard
    <<83,117,115,97,110>>,  \* Susan
    <<74,111,115,101,112,104>>,  \* Joseph
    <<74,101,115,115,105,99,97>>,  \* Jessica
    <<84,104,111,109,97,115>>,  \* Thomas
    <<83,97,114,97,104>>,  \* Sarah
    <<67,104,97,114,108,101,115>>,  \* Charles
    <<75,97,114,101,110>>,  \* Karen
    <<67,104,114,105,115,116,111,112,104,101,114>>,  \* Christopher
    <<78,97,110,99,121>>,  \* Nancy
    <<68,97,110,105,101,108>>,  \* Daniel
    <<76,105,115,97>>,  \* Lisa
    <<77,97,116,116,104,101,119>>,  \* Matthew
    <<66,101,116,116,121>>,  \* Betty
    <<65,110,116,104,111,110,121>>,  \* Anthony
    <<77,97,114,103,97,114,101,116>>,  \* Margaret
    <<77,97,114,107>>,  \* Mark
    <<83,97,110,100,114,97>>,  \* Sandra
    <<68,111,110,97,108,100>>,  \* Donald
    <<65,115,104,108,101,121>>,  \* Ashley
    <<83,116,101,118,101,110>>,  \* Steven
    <<75,105,109,98,101,114,108,121>>,  \* Kimberly
    <<80,97,117,108>>,  \* Paul
    <<69,109,105,108,121>>,  \* Emily
    <<65,110,100,114,101,119>>,  \* Andrew
    <<68,111,110,110,97>>,  \* Donna
    <<74,111,115,104,117,97>>,  \* Joshua
    <<77,105,99,104,101,108,108,101>>,  \* Michelle
    <<75,101,118,105,110>>,  \* Kevin
    <<67,97,114,111,108>>,  \* Carol
    <<66,114,105,97,110>>,  \* Brian
    <<65,109,97,110,100,97>>,  \* Amanda
    <<71,101,111,114,103,101>>,  \* George
    <<77,101,108,105,115,115,97>>,  \* Melissa
    <<69,100,119,97,114,100>>,  \* Edward
    <<68,101,98,111,114,97,104>>,  \* Deborah
    <<82,111,110,97,108,100>>,  \* Ronald
    <<83,116,101,112,104,97,110,105,101>>,  \* Stephanie
    <<84,105,109,111,116,104,121>>,  \* Timothy
    <<82,101,98,101,99,99,97>>,  \* Rebecca
    <<74,97,115,111,110>>,  \* Jason
    <<83,104,97,114,111,110>>,  \* Sharon
    <<74,101,102,102,114,101,121>>,  \* Jeffrey
    <<76,97,117,114,97>>,  \* Laura
    <<82,121,97,110>>,  \* Ryan
    <<67,121,110,116,104,105,97>>,  \* Cynthia
    <<74,97,99,111,98>>,  \* Jacob
    <<75,97,116,104,108,101,101,110>>,  \* Kathleen
    <<71,97,114,121>>,  \* Gary
    <<65,109,121>>,  \* Amy
    <<78,105,99,104,111,108,97,115>>,  \* Nicholas
    <<65,110,103,101,108,97>>  \* Angela
  >>

(* dataGenerator.js lastNames *)
lastNames ==
  <<
    <<83,109,105,116,104>>,  \* Smith
    <<74,111,104,110,115,111,110>>,  \* Johnson
    <<87,105,108,108,105,97,109,115>>,  \* Williams
    <<66,114,111,119,110>>,  \* Brown
    <<74,111,110,101,115>>,  \* Jones
    <<71,97,114,99,105,97>>,  \* Garcia
    <<77,105,108,108,101,114>>,  \* Miller
    <<68,97,118,105,115>>,  \* Davis
    <<82,111,100,114,105,103,117,101,122>>,  \* Rodriguez
    <<77,97,114,116,105,110,101,122>>,  \* Martinez
    <<72,101,114,110,97,110,100,101,122>>,  \* Hernandez
    <<76,111,112,101,122>>,  \* Lopez
    <<71,111,110,122,97,108,101,122>>,  \* Gonzalez
    <<87,105,108,115,111,110>>,  \* Wilson
    <<65,110,100,101,114,115,111,110>>,  \* Anderson
    <<84,104,111,109,97,115>>,  \* Thomas
    <<84,97,121,108,111,114>>,  \* Taylor
    <<77,111,111,114,101>>,  \* Moore
    <<74,97,99,107,115,111,110>>,  \* Jackson
    <<77,97,114,116,105,110>>,  \* Martin
    <<76,101,101>>,  \* Lee
    <<80,101,114,101,122>>,  \* Perez
    <<84,104,111,109,112,115,111,110>>,  \* Thompson
    <<87,104,105,116,101>>,  \* White
    <<72,97,114,114,105,115>>,  \* Harris
    <<83,97,110,99,104,101,122>>,  \* Sanchez
    <<67,108,97,114,107>>,  \* Clark
    <<82,97,109,105,114,101,122>>,  \* Ramirez
    <<76,101,119,105,115>>,  \* Lewis
    <<82,111,98,105,110,115,111,110>>,  \* Robinson
    <<87,97,108,107,101,114>>,  \* Walker
    <<89,111,117,110,103>>,  \* Young
    <<65,108,108,101,110>>,  \* Allen
    <<75,105,110,103>>,  \* King
    <<87,114,105,103,104,116>>,  \* Wright
    <<83,99,111,116,116>>,  \* Scott
    <<84,111,114,114,101,115>>,  \* Torres
    <<78,103,117,121,101,110>>,  \* Nguyen
    <<72,105,108,108>>,  \* Hill
    <<70,108,111,114,101,115>>,  \* Flores
    <<71,114,101,101,110>>,  \* Green
    <<65,100,97,109,115>>,  \* Adams
    <<78,101,108,115,111,110>>,  \* Nelson
    <<66,97,107,101,114>>,  \* Baker
    <<72,97,108,108>>,  \* Hall
    <<82,105,118,101,114,97>>,  \* Rivera
    <<67,97,109,112,98,101,108,108>>,  \* Campbell
    <<77,105,116,99,104,101,108,108>>,  \* Mitchell
    <<67,97,114,116,101,114>>,  \* Carter
    <<82,111,98,101,114,116,115>>,  \* Roberts
    <<71,111,109,101,122>>,  \* Gomez
    <<80,104,105,108,108,105,112,115>>,  \* Phillips
    <<69,118,97,110,115>>,  \* Evans
    <<84,117,114,110,101,114>>,  \* Turner
    <<68,105,97,122>>,  \* Diaz
    <<80,97,114,107,101,114>>  \* Parker
  >>

(* dataGenerator.js domains *)
domains ==
  <<
    <<103,109,97,105,108,46,99,111,109>>,  \* gmail.com
    <<121,97,104,111,111,46,99,111,109>>,  \* yahoo.com
    <<111,117,116,108,111,111,107,46,99,111,109>>,  \* outlook.com
    <<104,111,116,109,97,105,108,46,99,111,109>>,  \* hotmail.com
    <<99,111,109,112,97,110,121,46,99,111,109>>,  \* company.com
    <<105,99,108,111,117,100,46,99,111,109>>,  \* icloud.com
    <<112,114,111,116,111,110,109,97,105,108,46,99,111,109>>,  \* protonmail.com
    <<109,97,105,108,46,99,111,109>>  \* mail.com
  >>

(* dataGenerator.js agents *)
agents ==
  <<
    <<75,97,114,116,104,101,121,32,77,105,115,104,114,97>>,  \* Karthey Mishra
    <<65,103,101,110,116,32,83,109,105,116,104>>,  \* Agent Smith
    <<65,103,101,110,116,32,74,111,110,101,115>>,  \* Agent Jones
    <<65,103,101,110,116,32,66,114,111,119,110>>,  \* Agent Brown
    <<65,103,101,110,116,32,84,97,121,108,111,114>>,  \* Agent Taylor
    <<65,103,101,110,116,32,87,105,108,115,111,110>>,  \* Agent Wilson
    <<65,103,101,110,116,32,65,110,100,101,114,115,111,110>>,  \* Agent Anderson
    <<65,103,101,110,116,32,84,104,111,109,97,115>>  \* Agent Thomas
  >>

(* generateVirtualCustomer: its local firstNames *)
virtualFirstNames ==
  <<
    <<74,97,109,101,115>>,  \* James
    <<77,97,114,121>>,  \* Mary
    <<74,111,104,110>>,  \* John
    <<80,97,116,114,105,99,105,97>>,  \* Patricia
    <<82,111,98,101,114,116>>,  \* Robert
    <<74,101,110,110,105,102,101,114>>,  \* Jennifer
    <<77,105,99,104,97,101,108>>,  \* Michael
    <<76,105,110,100,97>>  \* Linda
  >>

(* generateVirtualCustomer: its local lastNames *)
virtualLastNames ==
  <<
    <<83,109,105,116,104>>,  \* Smith
    <<74,111,104,110,115,111,110>>,  \* Johnson
    <<87,105,108,108,105,97,109,115>>,  \* Williams
    <<66,114,111,119,110>>,  \* Brown
    <<74,111,110,101,115>>,  \* Jones
    <<71,97,114,99,105,97>>,  \* Garcia
    <<77,105,108,108,101,114>>,  \* Miller
    <<68,97,118,105,115>>  \* Davis
  >>

(* generateVirtualCustomer: its local domains *)
virtualDomains ==
  <<
    <<103,109,97,105,108,46,99,111,109>>,  \* gmail.com
    <<121,97,104,111,111,46,99,111,109>>,  \* yahoo.com
    <<111,117,116,108,111,111,107,46,99,111,109>>  \* outlook.com
  >>

(* generateVirtualCustomer: its local agents *)
virtualAgents ==
  <<
    <<75,97,114,116,104,101,121,32,77,105,115,104,114,97>>,  \* Karthey Mishra
    <<65,103,101,110,116,32,83,109,105,116,104>>,  \* Agent Smith
    <<65,103,101,110,116,32,74,111,110,101,115>>,  \* Agent Jones
    <<65,103,101,110,116,32,66,114,111,119,110>>  \* Agent Brown
  >>

(* "https://api.dicebear.com/7.x/avataaars/svg?seed=" *)
AVATAR_PREFIX == <<104,116,116,112,115,58,47,47,97,112,105,46,100,105,99,101,98,101,97,114,46,99,111,109,47,55,46,120,47,97,118,97,116,97,97,97,114,115,47,115,118,103,63,115,101,101,100,61>>

(* ---------------------------------------------------------------------- *)
(* Dates                                                                   *)
(* ---------------------------------------------------------------------- *)
\* 24 * 60 * 60 * 1000 ms in the source; seconds here
DAY == 24 * 60 * 60

\* Date.prototype.toISOString: the calendar day and the time of day
toISOString(t) == [day |-> t \div DAY, time |-> t % DAY]

\* new Date(isoString).getTime()
getTime(iso) == iso.day * DAY + iso.time

(* ---------------------------------------------------------------------- *)
(* The generators                                                          *)
(* ---------------------------------------------------------------------- *)
\* JavaScript arrays are 0-based
At(arr, i) == arr[i + 1]

\* a plausible slip: the avatar seed is made unique with the clock
generateCustomer_AvatarSeededByTime(id, now) ==
  LET firstName == At(firstNames, id % Len(firstNames))
      lastNameIndex == (id \div Len(firstNames)) % Len(lastNames)
      lastName == At(lastNames, lastNameIndex)
      name == firstName \o <<32>> \o lastName
      emailPrefix == toLowerCase(firstName) \o <<46>> \o toLowerCase(lastName)
      domain == At(domains, id % Len(domains))
      email == emailPrefix \o String(id) \o <<64>> \o domain
      phone == <<43, 49>> \o padStart(String(id), 10)
      score == (id * 7) % 100
      addedBy == At(agents, id % Len(agents))
      daysAgo == id % 365
      lastMessageAt == now - daysAgo * DAY
  IN [id |-> id, name |-> name, phone |-> phone, email |-> email, score |-> score,
      lastMessageAt |-> toISOString(lastMessageAt), addedBy |-> addedBy,
      avatar |-> AVATAR_PREFIX \o String(id) \o <<45>> \o String(now)]

\* a plausible slip: the score runs over 0..100, as the comment "Score
\* between 0-100" suggests
generateCustomer_ScoreTo100(id, now) ==
  LET firstName == At(firstNames, id % Len(firstNames))
      lastNameIndex == (id \div Len(firstNames)) % Len(lastNames)
      lastName == At(lastNames, lastNameIndex)
      name == firstName \o <<32>> \o lastName
      emailPrefix == toLowerCase(firstName) \o <<46>> \o toLowerCase(lastName)
      domain == At(domains, id % Len(domains))
      email == emailPrefix \o String(id) \o <<64>> \o domain
      phone == <<43, 49>> \o padStart(String(id), 10)
      score == (id * 7) % 101
      addedBy == At(agents, id % Len(agents))
      daysAgo == id % 365
      lastMessageAt == now - daysAgo * DAY
  IN [id |-> id, name |-> name, phone |-> phone, email |-> email, score |-> score,
      lastMessageAt |-> toISOString(lastMessageAt), addedBy |-> addedBy,
      avatar |-> AVATAR_PREFIX \o String(id)]

\* generateCustomer(id), with Date.now() = now
generateCustomer(id, now) ==
  LET firstName == At(firstNames, id % Len(firstNames))
      lastNameIndex == (id \div Len(firstNames)) % Len(lastNames)
      lastName == At(lastNames, lastNameIndex)
      name == firstName \o <<32>> \o lastName
      emailPrefix == toLowerCase(firstName) \o <<46>> \o toLowerCase(lastName)
      domain == At(domains, id % Len(domains))
      email == emailPrefix \o String(id) \o <<64>> \o domain
      phone == <<43, 49>> \o padStart(String(id), 10)
      score == (id * 7) % 100
      addedBy == At(agents, id % Len(agents))
      daysAgo == id % 365
      lastMessageAt == now - daysAgo * DAY
  IN [id |-> id, name |-> name, phone |-> phone, email |-> email, score |-> score,
      lastMessageAt |-> toISOString(lastMessageAt), addedBy |-> addedBy,
      avatar |-> AVATAR_PREFIX \o String(id)]

\* a plausible slip: the id is left out of the email
generateVirtualCustomer_EmailWithoutId(id, now) ==
  LET firstName == At(virtualFirstNames, id % Len(virtualFirstNames))
      lastName == At(virtualLastNames, (id \div Len(virtualFirstNames)) % Len(virtualLastNames))
      name == firstName \o <<32>> \o lastName
      email == toLowerCase(firstName) \o <<46>> \o toLowerCase(lastName)
                 \o <<64>> \o At(virtualDomains, id % Len(virtualDomains))
      phone == <<43, 49>> \o padStart(String(id), 10)
      score == (id * 7) % 100
      addedBy == At(virtualAgents, id % Len(virtualAgents))
      lastMessageAt == toISOString(now - (id % 365) * DAY)
  IN [id |-> id, name |-> name, phone |-> phone, email |-> email, score |-> score,
      lastMessageAt |-> lastMessageAt, addedBy |-> addedBy,
      avatar |-> AVATAR_PREFIX \o String(id)]

\* generateVirtualCustomer(id), with Date.now() = now
generateVirtualCustomer(id, now) ==
  LET firstName == At(virtualFirstNames, id % Len(virtualFirstNames))
      lastName == At(virtualLastNames, (id \div Len(virtualFirstNames)) % Len(virtualLastNames))
      name == firstName \o <<32>> \o lastName
      email == toLowerCase(firstName) \o <<46>> \o toLowerCase(lastName) \o String(id)
                 \o <<64>> \o At(virtualDomains, id % Len(virtualDomains))
      phone == <<43, 49>> \o padStart(String(id), 10)
      score == (id * 7) % 100
      addedBy == At(virtualAgents, id % Len(virtualAgents))
      lastMessageAt == toISOString(now - (id % 365) * DAY)
  IN [id |-> id, name |-> name, phone |-> phone, email |-> email, score |-> score,
      lastMessageAt |-> lastMessageAt, addedBy |-> addedBy,
      avatar |-> AVATAR_PREFIX \o String(id)]

\* a plausible slip: the end of the batch is clipped at totalCount
BatchAt_ClippedEnd(i, totalCount, batchSize, now) ==
  LET end == Min(i + batchSize, totalCount)
  IN [k \in 1..(end - i) |-> generateCustomer(i + k - 1, now)]

\* the batch generateCustomerBatches yields when its loop variable is i
\* (i <= totalCount), generated at time now
BatchAt(i, totalCount, batchSize, now) ==
  LET end == Min(i + batchSize, totalCount + 1)
  IN [k \in 1..(end - i) |-> generateCustomer(i + k - 1, now)]

\* a plausible slip: the loop runs while i < totalCount
RECURSIVE BatchesFrom_Lt(_, _, _, _)
BatchesFrom_Lt(i, totalCount, batchSize, now) ==
  IF i < totalCount
    THEN <<BatchAt(i, totalCount, batchSize, now)>>
           \o BatchesFrom_Lt(i + batchSize, totalCount, batchSize, now)
    ELSE <<>>

\* for (let i = ...; i <= totalCount; i += batchSize) { ... yield batch; }:
\* the batches yielded from loop variable i on
RECURSIVE BatchesFrom(_, _, _, _)
BatchesFrom(i, totalCount, batchSize, now) ==
  IF i <= totalCount
    THEN <<BatchAt(i, totalCount, batchSize, now)>>
           \o BatchesFrom(i + batchSize, totalCount, batchSize, now)
    ELSE <<>>

\* generateCustomerBatches(totalCount, batchSize) run to its end: the
\* batches it yields, in order
generateCustomerBatches(totalCount, batchSize, now) == BatchesFrom(1, totalCount, batchSize, now)

(* ---------------------------------------------------------------------- *)
(* The object store "customers" (keyPath id) and its cursor                *)
(* ---------------------------------------------------------------------- *)
\* the store is a function from the keys present to their records
EmptyStore == [k \in {} |-> 0]

\* store.put(customer) for every customer of a batch: upsert by id
\* a plausible slip: a record already stored under the id is kept (add for put)
PutAll_FirstWriteWins(st, batch) ==
  LET ids == {batch[k].id : k \in 1..Len(batch)}
  IN [k \in (DOMAIN st) \cup ids |->
        IF k \in DOMAIN st THEN st[k]
        ELSE (CHOOSE r \in {batch[j] : j \in 1..Len(batch)} : r.id = k)]

\* a plausible slip: the store is created with autoIncrement keys instead of
\* keyPath 'id', so that every put inserts
PutAll_AutoIncrement(st, batch) ==
  LET n == Cardinality(DOMAIN st)
  IN [k \in (DOMAIN st) \cup ((n + 1)..(n + Len(batch))) |->
        IF k \in DOMAIN st THEN st[k] ELSE batch[k - n]]

PutAll(st, batch) ==
  LET ids == {batch[k].id : k \in 1..Len(batch)}
  IN [k \in (DOMAIN st) \cup ids |->
        IF k \in ids THEN (CHOOSE r \in {batch[j] : j \in 1..Len(batch)} : r.id = k)
        ELSE st[k]]

\* store.count()
Count(st) == Cardinality(DOMAIN st)

RECURSIVE KeysAscending(_)
KeysAscending(S) ==
  IF S = {} THEN <<>>
  ELSE LET k == CHOOSE x \in S : \A y \in S : x <= y
       IN <<k>> \o KeysAscending(S \ {k})

\* the records store.openCursor() visits, in key order
CursorSeq(st) == LET ks == KeysAscending(DOMAIN st) IN [p \in 1..Len(ks) |-> st[ks[p]]]

(* ---------------------------------------------------------------------- *)
(* Array.prototype.sort with the comparator of getCustomers                *)
(* ---------------------------------------------------------------------- *)
\* the placeholder getCustomers pushes for a position below ACTUAL_STORED
NULL == [null |-> TRUE]

StringFields == {"name", "phone", "email", "addedBy", "avatar"}

\* aVal > bVal as JavaScript evaluates it for the field's type
JsGt(aVal, bVal, sortBy) == IF sortBy \in StringFields THEN StrLt(bVal, aVal) ELSE aVal > bVal
JsLt(aVal, bVal, sortBy) == IF sortBy \in StringFields THEN StrLt(aVal, bVal) ELSE aVal < bVal

\* a plausible slip: the comparator ignores sortOrder
compareFn_AscOnly(a, b, sortBy, sortOrder) ==
  LET aVal == IF sortBy = "lastMessageAt" THEN getTime(a[sortBy]) ELSE a[sortBy]
      bVal == IF sortBy = "lastMessageAt" THEN getTime(b[sortBy]) ELSE b[sortBy]
  IN IF JsGt(aVal, bVal, sortBy) THEN 1 ELSE -1

\* the comparator (a, b) => ... of both branches of getCustomers
compareFn(a, b, sortBy, sortOrder) ==
  LET aVal == IF sortBy = "lastMessageAt" THEN getTime(a[sortBy]) ELSE a[sortBy]
      bVal == IF sortBy = "lastMessageAt" THEN getTime(b[sortBy]) ELSE b[sortBy]
  IN IF sortOrder = "asc"
       THEN (IF JsGt(aVal, bVal, sortBy) THEN 1 ELSE -1)
       ELSE (IF JsLt(aVal, bVal, sortBy) THEN 1 ELSE -1)

\* The comparator never returns 0, so it is not a consistent comparison and
\* the order of records with equal keys is implementation-defined.  Two
\* engines are modelled, both insertion sorts driven by the comparator's
\* answers: one scans from the right and stops at the first element that
\* does not compare greater, the other searches by bisection.
Engines == {"linear", "binary"}

RECURSIVE LinearPos(_, _, _, _, _)
LinearPos(sorted, x, j, sortBy, sortOrder) ==
  IF j >= 1 /\ compareFn(sorted[j], x, sortBy, sortOrder) > 0
    THEN LinearPos(sorted, x, j - 1, sortBy, sortOrder)
    ELSE j

RECURSIVE BinaryPos(_, _, _, _, _, _)
BinaryPos(sorted, x, left, right, sortBy, sortOrder) ==
  IF left < right
    THEN LET mid == left + ((right - left) \div 2)
         IN IF compareFn(x, sorted[mid + 1], sortBy, sortOrder) < 0
              THEN BinaryPos(sorted, x, left, mid, sortBy, sortOrder)
              ELSE BinaryPos(sorted, x, mid + 1, right, sortBy, sortOrder)
    ELSE left

InsertAt(sorted, pos, x) == SubSeq(sorted, 1, pos) \o <<x>> \o SubSeq(sorted, pos + 1, Len(sorted))

RECURSIVE SortFrom(_, _, _, _, _, _)
SortFrom(arr, k, sorted, sortBy, sortOrder, eng) ==
  IF k > Len(arr) THEN sorted
  ELSE LET pos == IF eng = "linear"
                    THEN LinearPos(sorted, arr[k], Len(sorted), sortBy, sortOrder)
                    ELSE BinaryPos(sorted, arr[k], 0, Len(sorted), sortBy, sortOrder)
       IN SortFrom(arr, k + 1, InsertAt(sorted, pos, arr[k]), sortBy, sortOrder, eng)

\* arr.sort(compareFn) on an array without null entries
ArraySort(arr, sortBy, sortOrder, eng) == SortFrom(arr, 1, <<>>, sortBy, sortOrder, eng)

\* Array.prototype.slice(from, to)
Slice(arr, from, to) ==
  LET len == Len(arr)
      f == IF from < 0 THEN Max(len + from, 0) ELSE Min(from, len)
      t == IF to < 0 THEN Max(len + to, 0) ELSE Min(to, len)
  IN SubSeq(arr, f + 1, t)

(* ---------------------------------------------------------------------- *)
(* getCustomers                                                            *)
(* ---------------------------------------------------------------------- *)
\* The outcome of the promise getCustomers returns once the store is open:
\* "resolved" with {data, total, hasMore}, or "pending" for ever when the
\* cursor callback throws before it calls resolve.
Resolved(data, total, hasMore) ==
  [status |-> "resolved", data |-> data, total |-> total, hasMore |-> hasMore]
NeverSettles == [status |-> "pending", data |-> <<>>, total |-> 0, hasMore |-> FALSE]

\* for (let i = start; i < end; i++): a placeholder below ACTUAL_STORED, a
\* virtual customer from there on
windowPlaceholders(start, end, now) ==
  [k \in 1..(end - start) |->
     LET i == start + k - 1
     IN IF i < ACTUAL_STORED THEN NULL ELSE generateVirtualCustomer(i + 1, now)]

\* a plausible slip: the window test count >= start is left out
cursorRealData_NoStartTest(st, start, end) ==
  LET cur == CursorSeq(st) IN SubSeq(cur, 1, Min(end, Len(cur)))

\* request.onsuccess of the no-search branch: the cursor advances while
\* count < end and keeps the values at positions count in [start, end)
cursorRealData(st, start, end) ==
  LET cur == CursorSeq(st) IN SubSeq(cur, Max(start, 0) + 1, Min(end, Len(cur)))

\* realData.forEach((customer, idx) => { results[idx] = customer; })
mergeRealData(results, realData) ==
  [k \in 1..Max(Len(results), Len(realData)) |->
     IF k <= Len(realData) THEN realData[k] ELSE results[k]]

\* a plausible slip: <= for <
hasMoreNoSearch_Le(end) == end <= VIRTUAL_TOTAL

\* hasMore: end < VIRTUAL_TOTAL
hasMoreNoSearch(end) == end < VIRTUAL_TOTAL

\* the branch taken when search is empty
getCustomersNoSearch(st, offset, limit, sortBy, sortOrder, now, eng) ==
  LET start == offset
      end == Min(offset + limit, VIRTUAL_TOTAL)
      results == windowPlaceholders(start, end, now)
      realData == cursorRealData(st, start, end)
      merged == mergeRealData(results, realData)
      \* the comparator reads a[sortBy] and throws on a null entry
      throws == sortBy /= "id" /\ Len(merged) >= 2
                  /\ \E k \in 1..Len(merged) : merged[k] = NULL
      sorted == IF sortBy /= "id" THEN ArraySort(merged, sortBy, sortOrder, eng) ELSE merged
      NotNull(r) == r /= NULL
  IN IF throws THEN NeverSettles
     ELSE Resolved(SelectSeq(sorted, NotNull), VIRTUAL_TOTAL, hasMoreNoSearch(end))

\* a plausible slip: the term is not lower-cased before the comparison
matches_TermNotLowered(customer, search) ==
  \/ includes(toLowerCase(customer.name), search)
  \/ includes(toLowerCase(customer.email), search)
  \/ includes(customer.phone, search)

\* customer.name.toLowerCase().includes(searchLower) || ... of the search branch
matches(customer, search) ==
  LET searchLower == toLowerCase(search)
  IN \/ includes(toLowerCase(customer.name), searchLower)
     \/ includes(toLowerCase(customer.email), searchLower)
     \/ includes(customer.phone, search)

\* a plausible slip: the search branch skips the sort for sortBy = 'id', as
\* the no-search branch does
sortResults_SkipId(results, sortBy, sortOrder, eng) ==
  IF sortBy /= "id" THEN ArraySort(results, sortBy, sortOrder, eng) ELSE results

\* results.sort((a, b) => ...) of the search branch
sortResults(results, sortBy, sortOrder, eng) == ArraySort(results, sortBy, sortOrder, eng)

\* a plausible slip: an offset beyond the matches is pulled back to the last page
paginate_LastPageKept(sorted, offset, limit) ==
  LET from == Min(offset, Max(Len(sorted) - limit, 0))
  IN Slice(sorted, from, from + limit)

\* results.slice(offset, offset + limit)
paginate(sorted, offset, limit) == Slice(sorted, offset, offset + limit)

\* the branch taken when search is not empty
getCustomersSearch(st, offset, limit, search, sortBy, sortOrder, eng) ==
  LET Matching(customer) == matches(customer, search)
      results == SelectSeq(CursorSeq(st), Matching)
      sorted == sortResults(results, sortBy, sortOrder, eng)
      paginated == paginate(sorted, offset, limit)
  IN Resolved(paginated, Len(sorted), Len(sorted) > offset + limit)

\* getCustomers({offset, limit, search, sortBy, sortOrder}) after initDB succeeded
getCustomers(st, offset, limit, search, sortBy, sortOrder, now, eng) ==
  IF search = <<>>
    THEN getCustomersNoSearch(st, offset, limit, sortBy, sortOrder, now, eng)
    ELSE getCustomersSearch(st, offset, limit, search, sortBy, sortOrder, eng)

(* ---------------------------------------------------------------------- *)
(* Inputs of the environment                                               *)
(* ---------------------------------------------------------------------- *)
\* search box contents: "smith", "MARY", "+1", "zzz"
Terms == { <<115,109,105,116,104>>, <<77,65,82,89>>, <<43,49>>, <<122,122,122>> }

\* the columns whose headers call handleSort
SortColumns == {"name", "phone", "email", "score", "lastMessageAt"}
SortFields == {"id"} \cup SortColumns
SortOrders == {"asc", "desc"}

Keys == {"ArrowDown", "ArrowUp", "PageDown", "PageUp", "Home", "End"}

\* scrollbar positions y / rect.height, as k / FractionDen
FractionDen == 2

\* parseInt(text): optional sign, then the leading decimal digits; NaN without one
\* the numbers that are no fraction: NaN, Infinity, -Infinity
NaN == [special |-> "NaN"]
Infinity == [special |-> "Infinity"]
NegInfinity == [special |-> "-Infinity"]
IsDigit(c) == c >= 48 /\ c <= 57
RECURSIVE DigitsValue(_, _, _)
DigitsValue(s, k, acc) ==
  IF k <= Len(s) /\ IsDigit(s[k]) THEN DigitsValue(s, k + 1, acc * 10 + (s[k] - 48)) ELSE acc
parseInt(s) ==
  LET neg == Len(s) >= 1 /\ s[1] = 45
      first == IF Len(s) >= 1 /\ s[1] \in {43, 45} THEN 2 ELSE 1
  IN IF first <= Len(s) /\ IsDigit(s[first])
       THEN [nan |-> FALSE,
             value |-> IF neg THEN 0 - DigitsValue(s, first, 0) ELSE DigitsValue(s, first, 0)]
       ELSE [nan |-> TRUE, value |-> 0]

\* <input type="number" name="rowNumber" min="1" max={totalCount}>: the
\* browser keeps the typed text as the value only when it is a valid
\* floating-point number: [-] digits [. digits] [e [+|-] digits]
RECURSIVE scanNumber(_, _, _, _)
scanNumber(s, k, phase, a) ==
  IF k > Len(s)
    THEN [a EXCEPT !.valid = phase \in {"int", "frac", "exp"}]
    ELSE LET c == s[k]
             digit == c - 48
         IN CASE phase = "start" /\ c = 45 ->
                   scanNumber(s, k + 1, "first", [a EXCEPT !.neg = TRUE])
              [] phase \in {"start", "first", "int"} /\ IsDigit(c) ->
                   scanNumber(s, k + 1, "int", [a EXCEPT !.mant = a.mant * 10 + digit])
              [] phase \in {"start", "first", "int"} /\ c = 46 ->
                   scanNumber(s, k + 1, "dot", a)
              [] phase \in {"dot", "frac"} /\ IsDigit(c) ->
                   scanNumber(s, k + 1, "frac",
                              [a EXCEPT !.mant = a.mant * 10 + digit, !.fracLen = a.fracLen + 1])
              [] phase \in {"int", "frac"} /\ c \in {101, 69} ->
                   scanNumber(s, k + 1, "e", a)
              [] phase = "e" /\ c \in {43, 45} ->
                   scanNumber(s, k + 1, "esign", [a EXCEPT !.expNeg = (c = 45)])
              [] phase \in {"e", "esign", "exp"} /\ IsDigit(c) ->
                   scanNumber(s, k + 1, "exp", [a EXCEPT !.exp = a.exp * 10 + digit])
              [] OTHER -> [a EXCEPT !.valid = FALSE]
numberSyntax(s) ==
  scanNumber(s, 1, "start",
             [valid |-> FALSE, neg |-> FALSE, mant |-> 0, fracLen |-> 0, expNeg |-> FALSE,
              exp |-> 0])
isValidFloatingPointNumber(s) == numberSyntax(s).valid

\* input.value
inputValue(text) == IF isValidFloatingPointNumber(text) THEN text ELSE <<>>

\* the number a valid value stands for, as the fraction num / den, den > 0
RECURSIVE Pow10(_)
Pow10(n) == IF n <= 0 THEN 1 ELSE 10 * Pow10(n - 1)
valueAsNumber(s) ==
  LET p == numberSyntax(s)
      e == (IF p.expNeg THEN 0 - p.exp ELSE p.exp) - p.fracLen
  IN [num |-> (IF p.neg THEN 0 - p.mant ELSE p.mant) * Pow10(e), den |-> Pow10(0 - e)]

\* the form is not submitted while its input suffers from a range underflow
\* (min="1"), a range overflow (max={totalCount}) or a step mismatch
blockedByValidation(value, total) ==
  /\ value /= <<>>
  /\ LET n == valueAsNumber(value)
     IN \/ n.num < n.den
        \/ n.num > total * n.den
        \/ (n.num - n.den) % n.den /= 0

\* handleJumpToRow: whether it calls loadCustomersAtOffset, and with which offset
handleJumpToRowOffset(value, total) ==
  LET rowNumber == parseInt(value)
  IN IF ~rowNumber.nan /\ rowNumber.value >= 1 /\ rowNumber.value <= total
       THEN [issued |-> TRUE, offset |-> Max(0, rowNumber.value - 1)]
       ELSE [issued |-> FALSE, offset |-> 0]

\* "Go" is clicked with text typed into the input
submitJumpToRow(text, total) ==
  IF blockedByValidation(inputValue(text), total)
    THEN [issued |-> FALSE, offset |-> 0]
    ELSE handleJumpToRowOffset(inputValue(text), total)

\* texts typed into the jump-to-row input: "abc", "-1", "2x", "0.5e1" and
\* some row numbers
RowInputs ==
  { <<97,98,99>>, <<45,49>>, <<50,120>>, <<48,46,53,101,49>> }
    \cup { String(n) : n \in {0, 1, ACTUAL_STORED + 1, VIRTUAL_TOTAL, VIRTUAL_TOTAL + 1} }

(* ---------------------------------------------------------------------- *)
(* State                                                                   *)
(* ---------------------------------------------------------------------- *)
VARIABLES
  \* IndexedDB and the browser, which outlive a session
  store,          \* the committed content of the object store
  now,            \* Date.now()
  engine,         \* the browser's Array.prototype.sort
  committed,      \* chunk transactions committed so far
  \* App.jsx and saveCustomerBatches
  appPc,          \* where initializeApp stands
  isInitialized,  \* App state
  progress,       \* App state
  genI,           \* the loop variable i of generateCustomerBatches
  txn,            \* the batch put by the open readwrite transaction
  processedCount, \* saveCustomerBatches
  \* CustomerTable.jsx
  customers, loading, searchTerm, sortBy, sortOrder, totalCount, currentRow,
  scrollPercentage,
  drag,           \* the closure of the document mousemove listener
  keyListener,    \* the closure of the window keydown listener
  reqs,           \* the getCustomers calls of this session, in issue order
  shownSeq,       \* which call's response was applied last
  faults,         \* store faults met by this session's queries
  \* the direct call of getCustomers just made and its outcome
  lastQuery,
  \* the last two direct calls of the generators and what they returned
  generated

storeVars == <<store, now, engine, committed>>
appVars == <<appPc, isInitialized, progress, genI, txn, processedCount>>
uiVars == <<customers, loading, searchTerm, sortBy, sortOrder, totalCount, currentRow,
            scrollPercentage, drag, keyListener, reqs, shownSeq, faults>>
vars == <<storeVars, appVars, uiVars, lastQuery, generated>>

None == [none |-> TRUE]

\* a / b as JavaScript numbers: NaN for 0 / 0, an infinity for x / 0
RECURSIVE Gcd(_, _)
Gcd(a, b) == IF b = 0 THEN a ELSE Gcd(b, a % b)
Abs(a) == IF a < 0 THEN 0 - a ELSE a
Divide(a, b) ==
  IF b = 0 THEN (IF a = 0 THEN NaN ELSE IF a > 0 THEN Infinity ELSE NegInfinity)
  ELSE LET g == Gcd(Abs(a), Abs(b))
           s == IF b < 0 THEN 0 - 1 ELSE 1
       IN [num |-> s * (a \div g), den |-> s * (b \div g)]

\* the closure a render gives to loadCustomersAtOffset
Closure(term, by, order) == [searchTerm |-> term, sortBy |-> by, sortOrder |-> order]

\* CustomerTable's useState and useRef initial values
UIInitial ==
  [customers |-> <<>>, loading |-> FALSE, searchTerm |-> <<>>, sortBy |-> "id",
   sortOrder |-> "asc", totalCount |-> VIRTUAL_TOTAL, currentRow |-> 1,
   scrollPercentage |-> Divide(0, 1)]

Init ==
  /\ store = EmptyStore
  /\ now = StartTime
  /\ engine \in Engines
  /\ committed = 0
  /\ appPc = "hasData"
  /\ isInitialized = FALSE
  /\ progress = 0
  /\ genI = 1
  /\ txn = <<>>
  /\ processedCount = 0
  /\ customers = UIInitial.customers
  /\ loading = UIInitial.loading
  /\ searchTerm = UIInitial.searchTerm
  /\ sortBy = UIInitial.sortBy
  /\ sortOrder = UIInitial.sortOrder
  /\ totalCount = UIInitial.totalCount
  /\ currentRow = UIInitial.currentRow
  /\ scrollPercentage = UIInitial.scrollPercentage
  /\ drag = None
  /\ keyListener = None
  /\ reqs = <<>>
  /\ shownSeq = 0
  /\ faults = 0
  /\ lastQuery = None
  /\ generated = <<>>

(* ---------------------------------------------------------------------- *)
(* The environment                                                         *)
(* ---------------------------------------------------------------------- *)
\* a day passes
Tick ==
  /\ now < StartTime + MaxTicks * DAY
  /\ now' = now + DAY
  /\ UNCHANGED <<store, engine, committed, appVars, uiVars>>
  /\ lastQuery' = None
  /\ UNCHANGED generated

\* The tab is closed or reloaded (or the browser is killed) and the app is
\* opened again: an open transaction is aborted, component state is lost,
\* the committed store content stays.
Crash ==
  /\ appPc' = "hasData"
  /\ isInitialized' = FALSE
  /\ progress' = 0
  /\ genI' = 1
  /\ txn' = <<>>
  /\ processedCount' = 0
  /\ customers' = UIInitial.customers
  /\ loading' = UIInitial.loading
  /\ searchTerm' = UIInitial.searchTerm
  /\ sortBy' = UIInitial.sortBy
  /\ sortOrder' = UIInitial.sortOrder
  /\ totalCount' = UIInitial.totalCount
  /\ currentRow' = UIInitial.currentRow
  /\ scrollPercentage' = UIInitial.scrollPercentage
  /\ drag' = None
  /\ keyListener' = None
  /\ reqs' = <<>>
  /\ shownSeq' = 0
  /\ faults' = 0
  /\ UNCHANGED <<store, now, engine, committed>>
  /\ lastQuery' = None
  /\ UNCHANGED generated

(* ---------------------------------------------------------------------- *)
(* loadCustomersAtOffset                                                   *)
(* ---------------------------------------------------------------------- *)
\* setLoading(true) and the call getCustomers({offset, limit: ITEMS_PER_PAGE,
\* search, sortBy, sortOrder}) with the closure's values
loadCustomersAtOffset(offset, cl) ==
  /\ reqs' = Append(reqs, [offset |-> offset, search |-> cl.searchTerm, sortBy |-> cl.sortBy,
                           sortOrder |-> cl.sortOrder, state |-> "inflight",
                           fault |-> "none"])
  /\ loading' = TRUE

\* useEffect(() => {addEventListener('keydown', handleKeyDown) ...},
\* [currentRow, totalCount]): the listener is replaced by the one of the
\* current render only when currentRow or totalCount changed
KeydownEffect ==
  keyListener' = IF currentRow' /= currentRow \/ totalCount' /= totalCount
                   THEN Closure(searchTerm', sortBy', sortOrder')
                   ELSE keyListener

(* ---------------------------------------------------------------------- *)
(* App.jsx initializeApp, hasData and saveCustomerBatches                  *)
(* ---------------------------------------------------------------------- *)
\* setIsInitialized(true): CustomerTable mounts, its effects run: the
\* keydown listener is attached and loadCustomersAtOffset(0) is called
ShowTable ==
  /\ appPc' = "table"
  /\ isInitialized' = TRUE
  /\ loadCustomersAtOffset(0, Closure(searchTerm, sortBy, sortOrder))
  /\ keyListener' = Closure(searchTerm, sortBy, sortOrder)
  /\ UNCHANGED <<customers, searchTerm, sortBy, sortOrder, totalCount, currentRow,
                 scrollPercentage, drag, shownSeq, faults>>

\* hasData() resolves with count > 0
HasDataResolves ==
  /\ appPc = "hasData"
  /\ IF Count(store) > 0
       THEN ShowTable
       ELSE appPc' = "saveOpen" /\ UNCHANGED <<isInitialized, uiVars>>
  /\ UNCHANGED <<storeVars, progress, genI, txn, processedCount>>
  /\ lastQuery' = None
  /\ UNCHANGED generated

\* the for...of loop of saveCustomerBatches asks the generator for its next
\* batch: a readwrite transaction puts it, or the loop ends, the function
\* returns and initializeApp shows the table
NextBatch(i) ==
  IF i <= AppTotal
    THEN /\ txn' = BatchAt(i, AppTotal, BATCH_SIZE, now)
         /\ genI' = i
         /\ appPc' = "saveTxn"
         /\ UNCHANGED <<isInitialized, uiVars>>
    ELSE /\ txn' = <<>>
         /\ genI' = i
         /\ ShowTable

\* saveCustomerBatches: initDB() resolved, the loop starts
SaveOpened ==
  /\ appPc = "saveOpen"
  /\ NextBatch(1)
  /\ UNCHANGED <<storeVars, progress, processedCount>>
  /\ lastQuery' = None
  /\ UNCHANGED generated

\* a plausible slip: the await on setTimeout is left out, so that the
\* completion of a transaction goes straight on to the next batch
TransactionComplete_NoYield ==
  /\ appPc = "saveTxn"
  /\ store' = PutAll(store, txn)
  /\ committed' = committed + 1
  /\ processedCount' = processedCount + Len(txn)
  /\ progress' = processedCount + Len(txn)
  /\ NextBatch(genI + BATCH_SIZE)
  /\ UNCHANGED <<now, engine>>
  /\ lastQuery' = None
  /\ UNCHANGED generated

\* a plausible slip: the progress callback is called before the chunk's
\* length is added to processedCount
TransactionComplete_ProgressBeforeAdd ==
  /\ appPc = "saveTxn"
  /\ store' = PutAll(store, txn)
  /\ committed' = committed + 1
  /\ processedCount' = processedCount + Len(txn)
  /\ progress' = processedCount
  /\ txn' = <<>>
  /\ appPc' = "saveYield"
  /\ UNCHANGED <<now, engine, isInitialized, genI, uiVars>>
  /\ lastQuery' = None
  /\ UNCHANGED generated

\* transaction.oncomplete: the chunk is committed as a whole
TransactionComplete ==
  /\ appPc = "saveTxn"
  /\ store' = PutAll(store, txn)
  /\ committed' = committed + 1
  /\ processedCount' = processedCount + Len(txn)
  /\ progress' = processedCount + Len(txn)
  /\ txn' = <<>>
  /\ appPc' = "saveYield"
  /\ UNCHANGED <<now, engine, isInitialized, genI, uiVars>>
  /\ lastQuery' = None
  /\ UNCHANGED generated

\* the setTimeout(resolve, 0) between two chunks fires: the loop goes on
YieldTimerFires ==
  /\ appPc = "saveYield"
  /\ NextBatch(genI + BATCH_SIZE)
  /\ UNCHANGED <<storeVars, progress, processedCount>>
  /\ lastQuery' = None
  /\ UNCHANGED generated

\* indexedDB.open fails in hasData or in saveCustomerBatches: initDB rejects
\* and so does initializeApp, whose rejection nothing handles
StartupOpenFails ==
  /\ appPc \in {"hasData", "saveOpen"}
  /\ appPc' = "rejected"
  /\ UNCHANGED <<store, now, engine, committed, isInitialized, progress, genI, txn,
                 processedCount, uiVars>>
  /\ lastQuery' = None
  /\ UNCHANGED generated

\* store.count() fails in hasData: no handler settles its promise
CountFails ==
  /\ appPc = "hasData"
  /\ appPc' = "hung"
  /\ UNCHANGED <<store, now, engine, committed, isInitialized, progress, genI, txn,
                 processedCount, uiVars>>
  /\ lastQuery' = None
  /\ UNCHANGED generated

\* transaction.onerror: the transaction aborts, none of its puts is kept,
\* saveCustomerBatches rejects
TransactionFails ==
  /\ appPc = "saveTxn"
  /\ txn' = <<>>
  /\ appPc' = "rejected"
  /\ UNCHANGED <<store, now, engine, committed, isInitialized, progress, genI,
                 processedCount, uiVars>>
  /\ lastQuery' = None
  /\ UNCHANGED generated

(* ---------------------------------------------------------------------- *)
(* getCustomers as called by loadCustomersAtOffset                         *)
(* ---------------------------------------------------------------------- *)
SetState(k, s) == [reqs EXCEPT ![k].state = s]

\* The cursor of call k reaches its end and the promise settles; the code
\* after the await applies the result.  When the cursor callback throws the
\* promise stays pending and nothing after the await runs.
QueryCompletes(k) ==
  /\ appPc = "table"
  /\ k \in 1..Len(reqs)
  /\ reqs[k].state = "inflight"
  /\ LET q == reqs[k]
         result == getCustomers(store, q.offset, ITEMS_PER_PAGE, q.search, q.sortBy,
                                q.sortOrder, now, engine)
     IN IF result.status = "resolved"
          THEN /\ customers' = result.data
               /\ totalCount' = result.total
               /\ currentRow' = q.offset + 1
               /\ loading' = FALSE
               /\ reqs' = SetState(k, "applied")
               /\ shownSeq' = k
          ELSE /\ reqs' = SetState(k, "hung")
               /\ UNCHANGED <<customers, totalCount, currentRow, loading, shownSeq>>
  /\ UNCHANGED <<searchTerm, sortBy, sortOrder, scrollPercentage, drag>>
  /\ KeydownEffect
  /\ UNCHANGED faults
  /\ UNCHANGED <<storeVars, appVars, lastQuery, generated>>

\* initDB() rejects inside getCustomers (or db.transaction throws): the
\* await throws, the catch logs the error, the finally clears loading
QueryOpenFails(k) ==
  /\ appPc = "table"
  /\ k \in 1..Len(reqs)
  /\ reqs[k].state = "inflight"
  /\ faults < MaxFaults
  /\ faults' = faults + 1
  /\ reqs' = [reqs EXCEPT ![k].state = "rejected", ![k].fault = "open"]
  /\ loading' = FALSE
  /\ UNCHANGED <<customers, searchTerm, sortBy, sortOrder, totalCount, currentRow,
                 scrollPercentage, drag, keyListener, shownSeq>>
  /\ UNCHANGED <<storeVars, appVars, lastQuery, generated>>

\* the cursor request or the read transaction fails: getCustomers sets no
\* onerror handler and its promise has no reject, so it never settles
QueryReadFails(k) ==
  /\ appPc = "table"
  /\ k \in 1..Len(reqs)
  /\ reqs[k].state = "inflight"
  /\ faults < MaxFaults
  /\ faults' = faults + 1
  /\ reqs' = [reqs EXCEPT ![k].state = "hung", ![k].fault = "read"]
  /\ UNCHANGED <<customers, loading, searchTerm, sortBy, sortOrder, totalCount, currentRow,
                 scrollPercentage, drag, keyListener, shownSeq>>
  /\ UNCHANGED <<storeVars, appVars, lastQuery, generated>>

(* ---------------------------------------------------------------------- *)
(* CustomerTable.jsx: navigation                                           *)
(* ---------------------------------------------------------------------- *)
\* newOffset of handleKeyDown
handleKeyDownOffset(key, row, total) ==
  LET newOffset == row - 1
  IN CASE key = "ArrowDown" -> Min(total - ITEMS_PER_PAGE, newOffset + 1)
       [] key = "ArrowUp" -> Max(0, newOffset - 1)
       [] key = "PageDown" -> Min(total - ITEMS_PER_PAGE, newOffset + ITEMS_PER_PAGE)
       [] key = "PageUp" -> Max(0, newOffset - ITEMS_PER_PAGE)
       [] key = "Home" -> 0
       [] key = "End" -> total - ITEMS_PER_PAGE

\* newOffset of handleWheel, down when deltaY > 0
handleWheelOffset(down, row, total) ==
  LET delta == IF down THEN ITEMS_PER_PAGE ELSE 0 - ITEMS_PER_PAGE
  IN Max(0, Min(total - ITEMS_PER_PAGE, row - 1 + delta))

\* offset of updateScrollPosition for percentage = num / den in [0, 1]
updateScrollPositionOffset(num, den, total) ==
  LET targetRow == (num * total) \div den
  IN Max(0, Min(total - ITEMS_PER_PAGE, targetRow))

\* a key is pressed outside an input: the attached handleKeyDown runs
KeyDown(key) ==
  /\ appPc = "table"
  /\ Len(reqs) < MaxRequests
  /\ LET newOffset == handleKeyDownOffset(key, currentRow, totalCount)
     IN /\ scrollPercentage' = Divide(newOffset, totalCount)
        /\ loadCustomersAtOffset(newOffset, keyListener)
  /\ UNCHANGED <<customers, searchTerm, sortBy, sortOrder, totalCount, currentRow,
                 drag, shownSeq>>
  /\ KeydownEffect
  /\ UNCHANGED faults
  /\ UNCHANGED <<storeVars, appVars, lastQuery, generated>>

\* handleWheel
Wheel(down) ==
  /\ appPc = "table"
  /\ Len(reqs) < MaxRequests
  /\ LET newOffset == handleWheelOffset(down, currentRow, totalCount)
     IN /\ scrollPercentage' = Divide(newOffset, totalCount)
        /\ loadCustomersAtOffset(newOffset, Closure(searchTerm, sortBy, sortOrder))
  /\ UNCHANGED <<customers, searchTerm, sortBy, sortOrder, totalCount, currentRow,
                 drag, shownSeq>>
  /\ KeydownEffect
  /\ UNCHANGED faults
  /\ UNCHANGED <<storeVars, appVars, lastQuery, generated>>

\* updateScrollPosition with the totalCount and loadCustomersAtOffset of the
\* render whose handler runs
updateScrollPosition(num, total, cl) ==
  /\ scrollPercentage' = Divide(num, FractionDen)
  /\ loadCustomersAtOffset(updateScrollPositionOffset(num, FractionDen, total), cl)

\* handleScrollbarMouseDown: the document listeners it adds are those of the
\* current render
MouseDown(num) ==
  /\ appPc = "table"
  /\ Len(reqs) < MaxRequests
  /\ drag = None
  /\ updateScrollPosition(num, totalCount, Closure(searchTerm, sortBy, sortOrder))
  /\ drag' = [totalCount |-> totalCount, closure |-> Closure(searchTerm, sortBy, sortOrder)]
  /\ UNCHANGED <<customers, searchTerm, sortBy, sortOrder, totalCount, currentRow,
                 shownSeq>>
  /\ KeydownEffect
  /\ UNCHANGED faults
  /\ UNCHANGED <<storeVars, appVars, lastQuery, generated>>

\* handleScrollbarMouseMove while dragging
MouseMove(num) ==
  /\ appPc = "table"
  /\ Len(reqs) < MaxRequests
  /\ drag /= None
  /\ updateScrollPosition(num, drag.totalCount, drag.closure)
  /\ UNCHANGED <<customers, searchTerm, sortBy, sortOrder, totalCount, currentRow,
                 drag, shownSeq>>
  /\ KeydownEffect
  /\ UNCHANGED faults
  /\ UNCHANGED <<storeVars, appVars, lastQuery, generated>>

\* handleScrollbarMouseUp
MouseUp ==
  /\ appPc = "table"
  /\ drag /= None
  /\ drag' = None
  /\ UNCHANGED <<customers, loading, searchTerm, sortBy, sortOrder, totalCount, currentRow,
                 scrollPercentage, keyListener, reqs, shownSeq, faults>>
  /\ UNCHANGED <<storeVars, appVars, lastQuery, generated>>

\* the jump-to-row form is submitted with text typed into its input:
\* handleJumpToRow runs unless the browser's validation blocks the submit
JumpToRow(text) ==
  /\ appPc = "table"
  /\ LET jump == submitJumpToRow(text, totalCount)
     IN IF jump.issued
          THEN /\ Len(reqs) < MaxRequests
               /\ scrollPercentage' = Divide(jump.offset, totalCount)
               /\ loadCustomersAtOffset(jump.offset, Closure(searchTerm, sortBy, sortOrder))
          ELSE UNCHANGED <<scrollPercentage, reqs, loading>>
  /\ UNCHANGED <<customers, searchTerm, sortBy, sortOrder, totalCount, currentRow,
                 drag, shownSeq>>
  /\ KeydownEffect
  /\ UNCHANGED faults
  /\ UNCHANGED <<storeVars, appVars, lastQuery, generated>>

(* ---------------------------------------------------------------------- *)
(* CustomerTable.jsx: sort and search                                      *)
(* ---------------------------------------------------------------------- *)
\* a plausible slip: a click on another column keeps the current direction
handleSort_KeepsDirection(column) ==
  /\ appPc = "table"
  /\ IF sortBy = column
       THEN sortOrder' = (IF sortOrder = "asc" THEN "desc" ELSE "asc") /\ sortBy' = sortBy
       ELSE sortBy' = column /\ sortOrder' = sortOrder
  /\ currentRow' = 1
  /\ scrollPercentage' = Divide(0, 1)
  /\ loadCustomersAtOffset(0, Closure(searchTerm, sortBy', sortOrder'))
  /\ UNCHANGED <<customers, searchTerm, totalCount, drag, shownSeq>>
  /\ KeydownEffect
  /\ UNCHANGED faults
  /\ UNCHANGED <<storeVars, appVars, lastQuery, generated>>

\* handleSort(column), then the effect on [searchTerm, sortBy, sortOrder]
handleSort(column) ==
  /\ appPc = "table"
  /\ IF sortBy = column
       THEN sortOrder' = (IF sortOrder = "asc" THEN "desc" ELSE "asc") /\ sortBy' = sortBy
       ELSE sortBy' = column /\ sortOrder' = "asc"
  /\ currentRow' = 1
  /\ scrollPercentage' = Divide(0, 1)
  /\ loadCustomersAtOffset(0, Closure(searchTerm, sortBy', sortOrder'))
  /\ UNCHANGED <<customers, searchTerm, totalCount, drag, shownSeq>>
  /\ KeydownEffect
  /\ UNCHANGED faults
  /\ UNCHANGED <<storeVars, appVars, lastQuery, generated>>

\* a column header is clicked in a session of Spec
HandleSort(column) ==
  /\ Len(reqs) < MaxRequests
  /\ handleSort(column)

\* header clicks of one session of SpecS, after its first MaxRequests calls
MaxSorts == 2

\* a column header is clicked in a session of SpecS
HeaderClick(column) ==
  /\ Len(reqs) < MaxRequests + MaxSorts
  /\ handleSort(column)

\* The callback handleSearch schedules runs, 250 ms after the last keystroke,
\* with the value typed last; then the effect on [searchTerm, sortBy,
\* sortOrder] runs if searchTerm changed.  (The debounce itself, which only
\* decides which value arrives, is not modelled.)
SearchTimerFires(value) ==
  /\ appPc = "table"
  /\ searchTerm' = value
  /\ currentRow' = 1
  /\ scrollPercentage' = Divide(0, 1)
  /\ IF value /= searchTerm
       THEN /\ Len(reqs) < MaxRequests
            /\ loadCustomersAtOffset(0, Closure(value, sortBy, sortOrder))
       ELSE UNCHANGED <<reqs, loading>>
  /\ UNCHANGED <<customers, sortBy, sortOrder, totalCount, drag, shownSeq>>
  /\ KeydownEffect
  /\ UNCHANGED faults
  /\ UNCHANGED <<storeVars, appVars, lastQuery, generated>>

(* ---------------------------------------------------------------------- *)
(* getCustomers called directly                                            *)
(* ---------------------------------------------------------------------- *)
\* a plausible slip: the call caches the records it generated on demand by
\* writing them to the store
Query_CachesVirtualRecords(offset, limit, search, by, order) ==
  /\ appPc = "table"
  /\ lastQuery = None
  /\ LET result == getCustomers(store, offset, limit, search, by, order, now, engine)
         IsVirtual(r) == r.id > ACTUAL_STORED
     IN /\ lastQuery' = [offset |-> offset, limit |-> limit, search |-> search, sortBy |-> by,
                         sortOrder |-> order, now |-> now, result |-> result]
        /\ store' = PutAll(store, SelectSeq(result.data, IsVirtual))
  /\ UNCHANGED <<now, engine, committed, appVars, uiVars, generated>>

\* a call is made and its outcome kept until the next step of the application
Query(offset, limit, search, by, order) ==
  /\ appPc = "table"
  /\ lastQuery = None
  /\ lastQuery' = [offset |-> offset, limit |-> limit, search |-> search, sortBy |-> by,
                   sortOrder |-> order, now |-> now,
                   result |-> getCustomers(store, offset, limit, search, by, order, now, engine)]
  /\ UNCHANGED <<storeVars, appVars, uiVars, generated>>

\* saveCustomerBatches(generateCustomerBatches(total, 1000), ...) is called
\* again over the store as it is, in a new session: the caller retries after
\* a failed chunk write, or runs the ingestion over a populated store
SaveAgain ==
  /\ appPc \in {"rejected", "table"}
  /\ committed < MaxCommitted
  /\ appPc' = "saveOpen"
  /\ isInitialized' = FALSE
  /\ progress' = 0
  /\ genI' = 1
  /\ txn' = <<>>
  /\ processedCount' = 0
  /\ customers' = UIInitial.customers
  /\ loading' = UIInitial.loading
  /\ searchTerm' = UIInitial.searchTerm
  /\ sortBy' = UIInitial.sortBy
  /\ sortOrder' = UIInitial.sortOrder
  /\ totalCount' = UIInitial.totalCount
  /\ currentRow' = UIInitial.currentRow
  /\ scrollPercentage' = UIInitial.scrollPercentage
  /\ drag' = None
  /\ keyListener' = None
  /\ reqs' = <<>>
  /\ shownSeq' = 0
  /\ faults' = 0
  /\ UNCHANGED <<store, now, engine, committed>>
  /\ lastQuery' = None
  /\ UNCHANGED generated

(* ---------------------------------------------------------------------- *)
(* The generators called directly                                          *)
(* ---------------------------------------------------------------------- *)
\* ids the generators are called with: small ones, the ends of the range,
\* multiples of the table lengths and of 365, and ids that share first
\* name, last name and domain (1 and 3585 in generateCustomer, 1 and 193 in
\* generateVirtualCustomer, 3584 there and 192 here)
GenIds == {1, 100, 192, 193, 365, 366, 3584, 3585, 999999, 1000000}

\* arguments of generateCustomerBatches
MaxTotalCount == 5
MaxBatchSize == 3

\* the call just made is kept together with the one before it
Remember(call) ==
  generated' = IF Len(generated) < 2 THEN Append(generated, call) ELSE <<generated[2], call>>

GenerateCustomer(id) ==
  /\ Remember([fn |-> "generateCustomer", id |-> id, now |-> now,
               result |-> generateCustomer(id, now)])
  /\ UNCHANGED <<storeVars, appVars, uiVars, lastQuery>>

GenerateVirtualCustomer(id) ==
  /\ Remember([fn |-> "generateVirtualCustomer", id |-> id, now |-> now,
               result |-> generateVirtualCustomer(id, now)])
  /\ UNCHANGED <<storeVars, appVars, uiVars, lastQuery>>

\* [...generateCustomerBatches(total, batchSize)]
GenerateCustomerBatches(total, batchSize) ==
  /\ Remember([fn |-> "generateCustomerBatches", totalCount |-> total,
               batchSize |-> batchSize, now |-> now,
               result |-> generateCustomerBatches(total, batchSize, now)])
  /\ UNCHANGED <<storeVars, appVars, uiVars, lastQuery>>

\* what App renders: LoadingScreen while isInitialized is false, else the
\* table; App has no other screen
Screen == IF ~isInitialized THEN "LoadingScreen" ELSE "CustomerTable"

(* ---------------------------------------------------------------------- *)
(* Specifications                                                          *)
(* ---------------------------------------------------------------------- *)
Startup ==
  \/ HasDataResolves
  \/ SaveOpened
  \/ TransactionComplete
  \/ YieldTimerFires
  \/ StartupOpenFails
  \/ CountFails
  \/ TransactionFails

\* The application: start-up, then the table session, all within one day
\* (the clock matters to the records' lastMessageAt only; SpecQ advances it).
Next ==
  \/ Crash
  \/ Startup
  \/ \E k \in 1..MaxRequests : QueryCompletes(k) \/ QueryOpenFails(k) \/ QueryReadFails(k)
  \/ \E key \in Keys : KeyDown(key)
  \/ \E down \in BOOLEAN : Wheel(down)
  \/ \E num \in 0..FractionDen : MouseDown(num) \/ MouseMove(num)
  \/ MouseUp
  \/ \E text \in RowInputs : JumpToRow(text)
  \/ \E column \in SortColumns : HandleSort(column)
  \/ \E value \in Terms \cup {<<>>} : SearchTimerFires(value)

Spec == Init /\ [][Next]_vars

\* the store as start-up leaves it, queried directly with any parameters
QueryOffsets == 0..(VIRTUAL_TOTAL + 1)
NextQ ==
  \/ Tick
  \/ Crash
  \/ Startup
  \/ \E offset \in QueryOffsets, limit \in 1..MaxLimit, search \in Terms \cup {<<>>},
        by \in SortFields, order \in SortOrders : Query(offset, limit, search, by, order)

SpecQ == Init /\ [][NextQ]_vars

\* The store under repeated ingestion: the application's start-up, the
\* ingestion run again over whatever the store holds, and reads in between.
NextW ==
  \/ Tick
  \/ Crash
  \/ Startup
  \/ SaveAgain
  \/ \E offset \in QueryOffsets, limit \in 1..MaxLimit, search \in Terms \cup {<<>>},
        by \in SortFields, order \in SortOrders : Query(offset, limit, search, by, order)

SpecW == Init /\ [][NextW]_vars

\* The generators as functions of their arguments and the clock
NextG ==
  \/ Tick
  \/ \E id \in GenIds : GenerateCustomer(id) \/ GenerateVirtualCustomer(id)
  \/ \E total \in 0..MaxTotalCount, batchSize \in 1..MaxBatchSize :
        GenerateCustomerBatches(total, batchSize)

SpecG == Init /\ [][NextG]_vars

\* A first session whose start-up succeeds and in which the user scrolls
\* with the wheel and clicks column headers, long enough to sort
\* descending and then by another column
NextS ==
  \/ HasDataResolves
  \/ SaveOpened
  \/ TransactionComplete
  \/ YieldTimerFires
  \/ \E k \in 1..(MaxRequests + MaxSorts) : QueryCompletes(k)
  \/ \E down \in BOOLEAN : Wheel(down)
  \/ \E column \in SortColumns : HeaderClick(column)

SpecS == Init /\ [][NextS]_vars

(* ---------------------------------------------------------------------- *)
(* Properties of getCustomers, over the calls of SpecQ                     *)
(* ---------------------------------------------------------------------- *)
Range(f) == {f[x] : x \in DOMAIN f}

Called == lastQuery /= None
NoSearchCall == Called /\ lastQuery.search = <<>>
SearchCall == Called /\ lastQuery.search /= <<>>

\* the persisted ids are 1..m
PersistedPrefix(m) == DOMAIN store = 1..m

\* C1: in no-search mode, whatever the store holds, every index of the
\* window [offset, min(offset + limit, N)) is filled: the page is returned
\* and holds min(limit, N - offset) records, and with sortField = id the
\* record at index i is the persisted one at that position when there is
\* one below K, else a record with id i + 1.
C1_WindowAlwaysFilled ==
  (NoSearchCall /\ lastQuery.offset <= VIRTUAL_TOTAL) =>
    LET q == lastQuery
        last == Min(q.offset + q.limit, VIRTUAL_TOTAL)
        cur == CursorSeq(store)
        page == q.result.data
    IN /\ q.result.status = "resolved"
       /\ Len(page) = Min(q.limit, VIRTUAL_TOTAL - q.offset)
       /\ q.sortBy = "id" =>
            \A i \in q.offset..(last - 1) :
               IF i < ACTUAL_STORED /\ i < Len(cur)
                 THEN page[i - q.offset + 1] = cur[i + 1]
                 ELSE page[i - q.offset + 1].id = i + 1

\* C2: in no-search mode with sortField = id, when the persisted ids are
\* 1..m with m >= min(offset + limit, K) and 0 <= offset < N, the page holds
\* min(limit, N - offset) records and page[i].id = offset + i + 1.
C2_PageIdsFollowOffset ==
  (/\ NoSearchCall
   /\ lastQuery.sortBy = "id"
   /\ lastQuery.offset >= 0 /\ lastQuery.offset < VIRTUAL_TOTAL
   /\ PersistedPrefix(Count(store))
   /\ Count(store) >= Min(lastQuery.offset + lastQuery.limit, ACTUAL_STORED)) =>
    LET q == lastQuery
        page == q.result.data
    IN /\ q.result.status = "resolved"
       /\ Len(page) = Min(q.limit, VIRTUAL_TOTAL - q.offset)
       /\ \A i \in 0..(Len(page) - 1) : page[i + 1].id = q.offset + i + 1

\* a window that straddles the boundary K of a fully written store
C2_Witness ==
  /\ NoSearchCall
  /\ lastQuery.sortBy = "id"
  /\ Count(store) = ACTUAL_STORED
  /\ lastQuery.offset < ACTUAL_STORED
  /\ lastQuery.offset + lastQuery.limit > ACTUAL_STORED
  /\ Len(lastQuery.result.data) = lastQuery.limit
  /\ lastQuery.result.data[1].id = lastQuery.offset + 1

\* the fields C3 compares
SameButTime(a, b) ==
  /\ a.name = b.name
  /\ a.phone = b.phone
  /\ a.email = b.email
  /\ a.score = b.score
  /\ a.addedBy = b.addedBy
  /\ a.avatar = b.avatar

\* C3: for offset >= K in no-search mode with sortField = id, the record
\* returned for id = offset + i + 1 equals generateCustomer of that id in
\* name, phone, email, score, addedBy and avatar.
C3_VirtualEqualsGenerator ==
  (NoSearchCall /\ lastQuery.sortBy = "id" /\ lastQuery.offset >= ACTUAL_STORED
     /\ lastQuery.result.status = "resolved") =>
    \A i \in 0..(Len(lastQuery.result.data) - 1) :
       SameButTime(lastQuery.result.data[i + 1],
                   generateCustomer(lastQuery.offset + i + 1, lastQuery.now))

\* s contains t, letters compared without regard to case
SameLetter(a, b) ==
  LET Upper(c) == IF c >= 97 /\ c <= 122 THEN c - 32 ELSE c IN Upper(a) = Upper(b)
ContainsIgnoringCase(s, t) ==
  \E i \in 0..(Len(s) - Len(t)) : \A j \in 1..Len(t) : SameLetter(s[i + j], t[j])
ContainsExactly(s, t) ==
  \E i \in 0..(Len(s) - Len(t)) : \A j \in 1..Len(t) : s[i + j] = t[j]

\* the persisted records the matching rule of the specification selects
MatchingSet(term) ==
  {r \in Range(store) : \/ ContainsIgnoringCase(r.name, term)
                        \/ ContainsIgnoringCase(r.email, term)
                        \/ ContainsExactly(r.phone, term)}

\* the page the call of lastQuery would return at another offset
PageAt(o) ==
  getCustomers(store, o, lastQuery.limit, lastQuery.search, lastQuery.sortBy,
               lastQuery.sortOrder, lastQuery.now, engine).data

\* C4: in search mode the records returned over all offsets are exactly the
\* persisted records whose name or email contains the term without regard
\* to case or whose phone contains it; total is their number; no record
\* with id > K and none that is not persisted is returned.
C4_SearchReturnsTheMatches ==
  SearchCall =>
    LET q == lastQuery
        expected == MatchingSet(q.search)
        returned == UNION {Range(PageAt(o)) : o \in 0..Count(store)}
    IN /\ q.result.status = "resolved"
       /\ returned = expected
       /\ q.result.total = Cardinality(expected)
       /\ Range(q.result.data) \subseteq expected
       /\ \A r \in Range(q.result.data) : r.id <= ACTUAL_STORED /\ store[r.id] = r

\* "MARY" finds the one persisted Mary among the records of a full store
C4_Witness ==
  /\ SearchCall
  /\ lastQuery.search = <<77, 65, 82, 89>>
  /\ Count(store) = ACTUAL_STORED
  /\ lastQuery.offset = 0
  /\ lastQuery.result.total = 1
  /\ Len(lastQuery.result.data) = 1
  /\ lastQuery.result.data[1].id = 1

\* the key the sort compares, and its order
SortKey(r, by) == IF by = "lastMessageAt" THEN getTime(r.lastMessageAt) ELSE r[by]
KeyLeq(x, y, by) == IF by \in StringFields THEN ~StrLt(y, x) ELSE x <= y
InOrder(a, b, by, order) ==
  IF order = "asc" THEN KeyLeq(SortKey(a, by), SortKey(b, by), by)
  ELSE KeyLeq(SortKey(b, by), SortKey(a, by), by)

RECURSIVE PagesFrom(_)
PagesFrom(o) == IF o >= Count(store) THEN <<>> ELSE PageAt(o) \o PagesFrom(o + lastQuery.limit)

\* C5: in search mode over an unchanged store each page is ordered by the
\* sort key in the sort direction, every key of the page at o1 precedes or
\* equals every key of the page at o2 when o1 + limit <= o2, and the pages
\* at 0, limit, 2 * limit, ... hold every matching record exactly once.
C5_SearchSortsBeforeSlicing ==
  SearchCall =>
    LET q == lastQuery
        offsets == 0..Count(store)
        all == PagesFrom(0)
    IN /\ \A o \in offsets : \A i, j \in 1..Len(PageAt(o)) :
            i < j => InOrder(PageAt(o)[i], PageAt(o)[j], q.sortBy, q.sortOrder)
       /\ \A o1, o2 \in offsets :
            o1 + q.limit <= o2 =>
              \A a \in Range(PageAt(o1)), b \in Range(PageAt(o2)) :
                 InOrder(a, b, q.sortBy, q.sortOrder)
       /\ Range(all) = MatchingSet(q.search)
       /\ Len(all) = Cardinality(MatchingSet(q.search))
       /\ q.result.data = PageAt(q.offset)

\* two matching records share the sort key and fall on different pages
C5_Witness ==
  /\ SearchCall
  /\ lastQuery.sortBy = "lastMessageAt"
  /\ lastQuery.limit = 1
  /\ lastQuery.offset >= 1
  /\ Len(lastQuery.result.data) = 1
  /\ \E r \in MatchingSet(lastQuery.search) :
        /\ r /= lastQuery.result.data[1]
        /\ SortKey(r, "lastMessageAt") = SortKey(lastQuery.result.data[1], "lastMessageAt")
        /\ r \in Range(PageAt(lastQuery.offset - 1))

\* C8: hasMore is false exactly when offset + limit >= total, where total is
\* N in no-search mode and the number of matching records in search mode.
C8_HasMoreIffBelowTotal ==
  (Called /\ lastQuery.result.status = "resolved") =>
    LET q == lastQuery
    IN /\ (q.result.hasMore = FALSE) <=> (q.offset + q.limit >= q.result.total)
       /\ q.result.total = IF q.search = <<>> THEN VIRTUAL_TOTAL
                           ELSE Cardinality(MatchingSet(q.search))

\* a window that ends exactly at N: the last page, hasMore is false
C8_Witness ==
  /\ NoSearchCall
  /\ lastQuery.result.status = "resolved"
  /\ lastQuery.offset + lastQuery.limit = VIRTUAL_TOTAL
  /\ lastQuery.result.hasMore = FALSE
  /\ Len(lastQuery.result.data) = lastQuery.limit

(* ---------------------------------------------------------------------- *)
(* Properties of the ingestion                                             *)
(* ---------------------------------------------------------------------- *)
\* C9: at every point of the ingestion, and after a failure or a crash, the
\* persisted ids are 1..min(c * chunkSize, K) for the number c of chunks
\* committed; the chunk in the open transaction is the next one in id order
\* and none of its records is visible in the store.
C9_WholeChunksOnly ==
  /\ DOMAIN store = 1..Min(committed * BATCH_SIZE, AppTotal)
  /\ \A id \in DOMAIN store : store[id].id = id
  /\ \A k \in 1..Len(txn) :
        /\ txn[k].id = committed * BATCH_SIZE + k
        /\ txn[k].id \notin DOMAIN store

\* a session that follows a crash between two chunk commits shows the table
\* over the chunks committed before the crash
C9_Witness ==
  /\ appPc = "table"
  /\ committed >= 1
  /\ committed * BATCH_SIZE < AppTotal
  /\ Count(store) = committed * BATCH_SIZE

(* ---------------------------------------------------------------------- *)
(* Properties of the table's calls, over the sessions of Spec              *)
(* ---------------------------------------------------------------------- *)
\* C6: a response is applied to the displayed page, total and current row
\* only if it belongs to the most recently issued request, so once every
\* issued query has completed the displayed page and current row are those
\* of the latest issued request.
C6_OnlyLatestApplied ==
  (Len(reqs) > 0 /\ \A k \in 1..Len(reqs) : reqs[k].state = "applied") =>
    LET latest == reqs[Len(reqs)]
        result == getCustomers(store, latest.offset, ITEMS_PER_PAGE, latest.search,
                               latest.sortBy, latest.sortOrder, now, engine)
    IN /\ shownSeq = Len(reqs)
       /\ currentRow = latest.offset + 1
       /\ customers = result.data
       /\ totalCount = result.total

\* C7: the offset of every call a navigation event issues lies in
\* [0, total - pageSize] when the session's total is at least the page size
\* and is 0 when it is smaller; it is never negative.
C7_OffsetWithinTotal ==
  [][\A k \in (Len(reqs) + 1)..Len(reqs') :
        /\ reqs'[k].offset >= 0
        /\ reqs'[k].offset <= Max(totalCount - ITEMS_PER_PAGE, 0)]_vars

\* C10: a call during which opening the store or reading from it failed
\* completes with the failure reported to its caller, and once no call is
\* in flight the loading state has ended.
C10_StoreFailureReported ==
  \A k \in 1..Len(reqs) :
     reqs[k].fault /= "none" =>
       /\ reqs[k].state = "rejected"
       /\ (\A j \in 1..Len(reqs) : reqs[j].state \in {"applied", "rejected"}) =>
             loading = FALSE

(* ---------------------------------------------------------------------- *)
(* Start-up failures                                                       *)
(* ---------------------------------------------------------------------- *)
\* C11: when the store cannot be opened at start-up or a chunk write fails
\* during the initial ingestion, the session shows a blocking error state:
\* neither the loading screen nor the table.
C11_StartupFailureSurfaced ==
  appPc = "rejected" => Screen \notin {"LoadingScreen", "CustomerTable"}

(* ---------------------------------------------------------------------- *)
(* The sorted window of the no-search branch                               *)
(* ---------------------------------------------------------------------- *)
\* C12: in no-search mode with sortField /= id and ids 1..K all persisted,
\* the page is a permutation of the records the query returns for
\* sortField = id at that offset (ids offset + 1 .. min(offset + limit, N)),
\* ordered by sortField in sortDirection.
C12_SortedWindowIsPermutation ==
  (/\ NoSearchCall
   /\ lastQuery.sortBy /= "id"
   /\ PersistedPrefix(ACTUAL_STORED)
   /\ lastQuery.offset >= 0 /\ lastQuery.offset < VIRTUAL_TOTAL) =>
    LET q == lastQuery
        page == q.result.data
        byId == getCustomers(store, q.offset, q.limit, <<>>, "id", "asc", q.now, engine).data
    IN /\ q.result.status = "resolved"
       /\ Len(page) = Len(byId)
       /\ Range(page) = Range(byId)
       /\ {r.id : r \in Range(page)} = (q.offset + 1)..Min(q.offset + q.limit, VIRTUAL_TOTAL)
       /\ \A i, j \in 1..Len(page) :
             i < j => InOrder(page[i], page[j], q.sortBy, q.sortOrder)

\* a descending sort by name reorders a window that straddles K
C12_Witness ==
  /\ NoSearchCall
  /\ lastQuery.sortBy = "name"
  /\ lastQuery.sortOrder = "desc"
  /\ PersistedPrefix(ACTUAL_STORED)
  /\ lastQuery.offset < ACTUAL_STORED
  /\ lastQuery.offset + lastQuery.limit > ACTUAL_STORED
  /\ Len(lastQuery.result.data) = lastQuery.limit
  /\ lastQuery.result.data[1].id /= lastQuery.offset + 1

(* ---------------------------------------------------------------------- *)
(* Keyboard and wheel steps                                                *)
(* ---------------------------------------------------------------------- *)
Clamp(x, lo, hi) == Max(lo, Min(hi, x))

\* the offset the step rule gives from the session's current offset and total
Advance(delta) == Clamp(currentRow - 1 + delta, 0, totalCount - ITEMS_PER_PAGE)

KeyTarget(key) ==
  CASE key = "ArrowDown" -> Advance(1)
    [] key = "ArrowUp" -> Advance(-1)
    [] key = "PageDown" -> Advance(ITEMS_PER_PAGE)
    [] key = "PageUp" -> Advance(0 - ITEMS_PER_PAGE)
    [] key = "Home" -> 0
    [] key = "End" -> totalCount - ITEMS_PER_PAGE

\* the offset of the call the step has just issued
IssuedOffset == reqs'[Len(reqs')].offset

\* C13: every keyboard or wheel step requests exactly
\* clamp(currentOffset + delta, 0, total - pageSize), both bounds applied for
\* every key, from every current offset and for every total of the session.
C13_StepsAreClamped ==
  [][/\ \A key \in Keys : KeyDown(key) => IssuedOffset = KeyTarget(key)
     /\ \A down \in BOOLEAN :
          Wheel(down) =>
            IssuedOffset = Advance(IF down THEN ITEMS_PER_PAGE ELSE 0 - ITEMS_PER_PAGE)]_vars

(* ---------------------------------------------------------------------- *)
(* Jump to row                                                             *)
(* ---------------------------------------------------------------------- *)
\* the row a text stands for, when it is a whole number
IsWholeNumber(text) ==
  isValidFloatingPointNumber(text) /\ valueAsNumber(text).num % valueAsNumber(text).den = 0
WholeNumber(text) == valueAsNumber(text).num \div valueAsNumber(text).den

\* C14: in every state of the table session, a jump-to-row request with a
\* row in [1, total] issues a query at offset row - 1, and a request with
\* row < 1, row > total or a non-numeric input issues none.
C14_JumpAcceptsExactlyValidRows ==
  appPc = "table" =>
    \A text \in RowInputs :
       LET jump == submitJumpToRow(text, totalCount)
       IN IF IsWholeNumber(text) /\ WholeNumber(text) \in 1..totalCount
            THEN jump.issued /\ jump.offset = WholeNumber(text) - 1
            ELSE ~jump.issued

(* ---------------------------------------------------------------------- *)
(* Scrollbar drag and scroll fraction                                      *)
(* ---------------------------------------------------------------------- *)
\* the total the drag handler that would run next computes with: the one of
\* the current render on mousedown, the one of the listeners' render on
\* mousemove
DragHandlerTotal == IF drag = None THEN totalCount ELSE drag.totalCount

\* C15: for every scroll fraction in [0, 1] and the total of the session, a
\* scrollbar drag requests offset clamp(floor(fraction * total), 0,
\* total - pageSize).
C15_DragOffsetFollowsTotal ==
  appPc = "table" =>
    \A num \in 0..FractionDen :
       updateScrollPositionOffset(num, FractionDen, DragHandlerTotal)
         = Clamp((num * totalCount) \div FractionDen, 0, totalCount - ITEMS_PER_PAGE)

NavigationEvent ==
  \/ \E key \in Keys : KeyDown(key)
  \/ \E down \in BOOLEAN : Wheel(down)
  \/ \E num \in 0..FractionDen : MouseDown(num) \/ MouseMove(num)
  \/ \E text \in RowInputs : JumpToRow(text)

InUnitInterval(f) ==
  /\ DOMAIN f = {"num", "den"}
  /\ 0 <= f.num /\ f.num <= f.den

\* C16: after every navigation event the stored scroll fraction equals
\* offset / total for the offset the event requests and lies in [0, 1], for
\* every total of the session.
C16_FractionIsOffsetOverTotal ==
  [][(NavigationEvent /\ Len(reqs') = Len(reqs) + 1) =>
       /\ scrollPercentage' = Divide(IssuedOffset, totalCount)
       /\ InUnitInterval(scrollPercentage')]_vars

(* ---------------------------------------------------------------------- *)
(* Offsets at or beyond the total                                          *)
(* ---------------------------------------------------------------------- *)
\* the total of a call's mode: N without a search term, else the number of
\* persisted records the term matches
ModeTotal == IF lastQuery.search = <<>> THEN VIRTUAL_TOTAL
             ELSE Cardinality(MatchingSet(lastQuery.search))

\* C17: a query whose offset is at or beyond the total completes normally
\* with an empty page and hasMore = false, in both modes.
C17_BeyondTotalIsEmptyPage ==
  (Called /\ lastQuery.offset >= ModeTotal) =>
    /\ lastQuery.result.status = "resolved"
    /\ lastQuery.result.data = <<>>
    /\ lastQuery.result.hasMore = FALSE
    /\ lastQuery.result.total = ModeTotal

\* a search with matches asked for the page that starts right after them
C17_Witness ==
  /\ SearchCall
  /\ ModeTotal >= 1
  /\ lastQuery.offset = ModeTotal
  /\ lastQuery.result.status = "resolved"
  /\ lastQuery.result.data = <<>>

(* ---------------------------------------------------------------------- *)
(* Repeated ingestion                                                      *)
(* ---------------------------------------------------------------------- *)
StoredIds == {store[k].id : k \in DOMAIN store}

\* C18: chunk writes are upserts by id: however often a chunk is written
\* and the ingestion run again over a partly or fully populated store, the
\* persisted ids are those of writing each chunk once (1..min(c * chunkSize,
\* K) for some number c of chunks, all of 1..K once a run has finished),
\* the count never exceeds K and no id is stored twice.
C18_IngestionIsIdempotent ==
  /\ Count(store) <= AppTotal
  /\ \A k1, k2 \in DOMAIN store : store[k1].id = store[k2].id => k1 = k2
  /\ \E c \in 0..committed : StoredIds = 1..Min(c * BATCH_SIZE, AppTotal)
  /\ Count(store) = Cardinality(StoredIds)
  /\ appPc = "saveYield" => 1..Min(genI + BATCH_SIZE - 1, AppTotal) \subseteq StoredIds
  /\ (appPc = "table" /\ genI > AppTotal) => StoredIds = 1..AppTotal

\* a chunk has just been committed over a store that already held all of
\* 1..K: more chunk commits than chunks, and still K records
C18_Witness ==
  /\ appPc = "saveYield"
  /\ committed * BATCH_SIZE > AppTotal
  /\ Count(store) = AppTotal
  /\ StoredIds = 1..AppTotal

(* ---------------------------------------------------------------------- *)
(* Write / read fidelity                                                   *)
(* ---------------------------------------------------------------------- *)
\* the step commits the chunk of the open transaction
CommitStep == appPc = "saveTxn" /\ appPc' = "saveYield"
TxnIds == {txn[k].id : k \in 1..Len(txn)}

\* the records a resolved call returns are the stored ones, and it returns
\* the stored record of every id its window covers
ReadsReturnStored ==
  (Called /\ lastQuery.result.status = "resolved") =>
    LET q == lastQuery
        page == q.result.data
    IN /\ \A r \in Range(page) :
             r.id <= ACTUAL_STORED => (r.id \in DOMAIN store /\ r = store[r.id])
       /\ (q.search = <<>> /\ q.sortBy = "id") =>
             \A id \in DOMAIN store :
                (q.offset < id /\ id <= q.offset + q.limit) => store[id] \in Range(page)
       /\ q.search /= <<>> =>
             \A r \in MatchingSet(q.search) : \E o \in 0..Count(store) : r \in Range(PageAt(o))

\* C19: once a record with id i is written and its chunk committed, the
\* store holds exactly that record under i until a later committed write of
\* id i replaces it, whatever is read or written for other ids in between,
\* and every read of id i through a no-search window or a search returns
\* the record the store holds.
C19_WriteReadFidelity ==
  /\ [][/\ CommitStep => \A k \in 1..Len(txn) :
                            /\ txn[k].id \in DOMAIN store'
                            /\ store'[txn[k].id] = txn[k]
        /\ \A id \in DOMAIN store :
              (~CommitStep \/ id \notin TxnIds) =>
                 (id \in DOMAIN store' /\ store'[id] = store[id])]_vars
  /\ []ReadsReturnStored

\* after the ingestion was run again a day later, a window read returns the
\* record of id 1 as the later write left it
C19_Witness ==
  /\ NoSearchCall
  /\ lastQuery.result.status = "resolved"
  /\ committed * BATCH_SIZE > AppTotal
  /\ 1 \in DOMAIN store
  /\ store[1] = generateCustomer(1, StartTime + DAY)
  /\ lastQuery.result.data /= <<>>
  /\ lastQuery.result.data[1] = store[1]

(* ---------------------------------------------------------------------- *)
(* Chunk transactions and the yield between them                           *)
(* ---------------------------------------------------------------------- *)
\* the step opens a readwrite transaction for a chunk
OpenStep == txn' /= <<>> /\ txn' /= txn

\* C20: the transaction of the next chunk is opened only when no write
\* transaction is open, and after the first chunk only from the point the
\* setTimeout yield has been reached after the previous commit; the step
\* that commits a chunk opens none, so there is a state between any two
\* consecutive commits in which other events can run; chunks follow in id
\* order.
C20_OneChunkAtATimeWithYield ==
  [][/\ OpenStep =>
          /\ txn = <<>>
          /\ appPc \in {"saveOpen", "saveYield"}
          /\ appPc = "saveOpen" => txn'[1].id = 1
          /\ appPc = "saveYield" => txn'[1].id = genI + BATCH_SIZE
     /\ CommitStep => (txn' = <<>> /\ appPc' = "saveYield")
     /\ (committed' /= committed) => (CommitStep /\ committed' = committed + 1)
     /\ (appPc = "saveYield" /\ appPc' = "saveTxn") => committed' = committed]_vars

\* the transaction of the second chunk is open, after the first was
\* committed and the timer fired
C20_Witness ==
  /\ appPc = "saveTxn"
  /\ committed >= 1
  /\ txn /= <<>>
  /\ txn[1].id = committed * BATCH_SIZE + 1
  /\ Count(store) = committed * BATCH_SIZE

(* ---------------------------------------------------------------------- *)
(* Properties of the generators, over the calls of SpecG                   *)
(* ---------------------------------------------------------------------- *)
\* the remembered calls of generateCustomer and generateVirtualCustomer
RecordCalls ==
  {generated[k] : k \in {n \in 1..Len(generated) :
                           generated[n].fn \in {"generateCustomer", "generateVirtualCustomer"}}}

TimeInvariantFields == {"id", "name", "phone", "email", "score", "addedBy", "avatar"}

\* C21: two calls of a generator with the same id at the same reference
\* time return records equal in every field; at different reference times
\* they return records equal in every field except lastMessageAt, which is
\* the reference time minus (id mod 365) days.
C21_GeneratorIsDeterministic ==
  \A c1, c2 \in RecordCalls :
     /\ DOMAIN c1.result = TimeInvariantFields \cup {"lastMessageAt"}
     /\ c1.result.lastMessageAt = toISOString(c1.now - (c1.id % 365) * DAY)
     /\ getTime(c1.result.lastMessageAt) = c1.now - (c1.id % 365) * DAY
     /\ (c1.fn = c2.fn /\ c1.id = c2.id) =>
          /\ \A f \in TimeInvariantFields : c1.result[f] = c2.result[f]
          /\ c1.now = c2.now => c1.result = c2.result

\* generateCustomer(366) called on two days: the records differ, in
\* lastMessageAt only
C21_Witness ==
  /\ Len(generated) = 2
  /\ generated[1].fn = "generateCustomer" /\ generated[2].fn = "generateCustomer"
  /\ generated[1].id = 366 /\ generated[2].id = 366
  /\ generated[1].now = StartTime /\ generated[2].now = StartTime + DAY
  /\ generated[1].result /= generated[2].result
  /\ getTime(generated[2].result.lastMessageAt) = StartTime

\* the part of an email after its "@"
DomainOf(email) ==
  LET at == CHOOSE k \in 1..Len(email) : email[k] = 64 IN SubSeq(email, at + 1, Len(email))

\* C22: for ids id1 /= id2 the generated emails differ, although first
\* name, last name and domain repeat across ids; this holds for two records
\* of generateCustomer, for two of generateVirtualCustomer and for one of
\* each.
C22_EmailsAreUnique ==
  \A c1, c2 \in RecordCalls : c1.id /= c2.id => c1.result.email /= c2.result.email

\* James Smith at gmail.com from both generators (id 3584 in
\* generateCustomer, id 192 in generateVirtualCustomer), with different
\* emails
C22_Witness ==
  /\ Len(generated) = 2
  /\ generated[1].fn = "generateCustomer" /\ generated[1].id = 3584
  /\ generated[2].fn = "generateVirtualCustomer" /\ generated[2].id = 192
  /\ generated[1].result.name = generated[2].result.name
  /\ DomainOf(generated[1].result.email) = DomainOf(generated[2].result.email)
  /\ generated[1].result.email /= generated[2].result.email

\* C23: for every id the generated score equals (id * 7) mod 100 and is an
\* integer in [0, 99], in generateCustomer and in generateVirtualCustomer.
C23_ScoreIsSevenTimesIdMod100 ==
  \A c \in RecordCalls :
     /\ c.result.score \in 0..99
     /\ c.result.score = (c.id * 7) % 100

\* the score wraps around: 93 for id 999999 from the on-demand generator,
\* after 0 for id 100 from the ingestion generator
C23_Witness ==
  /\ Len(generated) = 2
  /\ generated[1].fn = "generateCustomer" /\ generated[1].id = 100
  /\ generated[1].result.score = 0
  /\ generated[2].fn = "generateVirtualCustomer" /\ generated[2].id = 999999
  /\ generated[2].result.score = 93

\* the remembered calls of generateCustomerBatches
BatchCalls ==
  {generated[k] : k \in {n \in 1..Len(generated) : generated[n].fn = "generateCustomerBatches"}}

RECURSIVE Concatenation(_)
Concatenation(batches) ==
  IF batches = <<>> THEN <<>> ELSE Head(batches) \o Concatenation(Tail(batches))

\* C25: for every totalCount >= 0 and batchSize >= 1 the batches of
\* generateCustomerBatches, concatenated, are the records for ids 1, 2, ...,
\* totalCount in ascending order, each id once; every batch holds at most
\* batchSize records, every batch but the last exactly batchSize, no batch
\* is empty, and nothing is yielded when totalCount = 0.
C25_BatchesPartitionTheIds ==
  \A c \in BatchCalls :
     LET batches == c.result
         all == Concatenation(batches)
     IN /\ Len(all) = c.totalCount
        /\ \A k \in 1..Len(all) : all[k] = generateCustomer(k, c.now)
        /\ \A b \in 1..Len(batches) :
              /\ Len(batches[b]) >= 1
              /\ Len(batches[b]) <= c.batchSize
              /\ b < Len(batches) => Len(batches[b]) = c.batchSize
        /\ c.totalCount = 0 => batches = <<>>

\* five records in batches of two: two whole batches and a last one that
\* holds the record of id 5 alone
C25_Witness ==
  /\ Len(generated) >= 1
  /\ generated[1].fn = "generateCustomerBatches"
  /\ generated[1].totalCount = 5 /\ generated[1].batchSize = 2
  /\ Len(generated[1].result) = 3
  /\ Len(generated[1].result[3]) = 1
  /\ generated[1].result[3][1].id = 5

(* ---------------------------------------------------------------------- *)
(* Column header clicks, over the sessions of SpecS                        *)
(* ---------------------------------------------------------------------- *)
Flipped(order) == IF order = "asc" THEN "desc" ELSE "asc"

\* C24: a click on a column header that is not the current sort field sets
\* the sort field to that column with direction ascending; a click on the
\* current sort field's header flips the direction; in both cases the view
\* is reset to row 1 with scroll fraction 0 and a query at offset 0 with
\* the new sort is issued.
C24_HeaderClickSetsSort ==
  [][\A column \in SortColumns :
        HeaderClick(column) =>
          /\ sortBy /= column => (sortBy' = column /\ sortOrder' = "asc")
          /\ sortBy = column => (sortBy' = column /\ sortOrder' = Flipped(sortOrder))
          /\ currentRow' = 1
          /\ scrollPercentage' = Divide(0, 1)
          /\ Len(reqs') = Len(reqs) + 1
          /\ LET q == reqs'[Len(reqs')]
             IN /\ q.offset = 0
                /\ q.sortBy = sortBy'
                /\ q.sortOrder = sortOrder'
                /\ q.search = searchTerm
                /\ q.state = "inflight"]_vars

\* the user scrolled down, clicked a header twice (ascending, then
\* descending) and then another header: ascending again, at row 1
C24_Witness ==
  /\ Len(reqs) >= 4
  /\ LET n == Len(reqs)
     IN /\ reqs[n - 2].sortOrder = "asc"
        /\ reqs[n - 1].sortBy = reqs[n - 2].sortBy
        /\ reqs[n - 1].sortOrder = "desc"
        /\ reqs[n].sortBy /= reqs[n - 1].sortBy
        /\ reqs[n].sortOrder = "asc"
        /\ reqs[n].offset = 0
        /\ reqs[n].state = "inflight"
        /\ sortBy = reqs[n].sortBy
        /\ sortOrder = "asc"
  /\ \E k \in 1..Len(reqs) : reqs[k].offset > 0 /\ reqs[k].state = "applied"
  /\ currentRow = 1
  /\ scrollPercentage = Divide(0, 1)

(* ---------------------------------------------------------------------- *)
(* The render gate                                                         *)
(* ---------------------------------------------------------------------- *)
\* C26: in every session, also one that starts after an earlier session
\* failed or crashed between two chunk commits, whenever the table is shown
\* (isInitialized is true) the store holds every id in 1..K.
C26_TableOnlyOverFullStore ==
  isInitialized => (1..ACTUAL_STORED) \subseteq DOMAIN store

(* ---------------------------------------------------------------------- *)
(* Completion of queries                                                   *)
(* ---------------------------------------------------------------------- *)
\* C27: every issued query eventually completes (its promise resolves or
\* rejects), whatever the store holds and for every mode, sort and offset,
\* so that the loading flag set at its issue is eventually cleared.  A call
\* in state "hung" has a promise that no step settles any more; the calls
\* that met no store fault must never be in it, and once no call is in
\* flight the loading flag is clear.
C27_EveryQueryCompletes ==
  /\ \A k \in 1..Len(reqs) : reqs[k].fault = "none" => reqs[k].state /= "hung"
  /\ (Len(reqs) > 0 /\ faults = 0 /\ \A k \in 1..Len(reqs) : reqs[k].state /= "inflight") =>
        loading = FALSE

(* ---------------------------------------------------------------------- *)
(* The search and sort a navigation query carries                          *)
(* ---------------------------------------------------------------------- *)
\* C28: every query issued by a navigation event (key press, wheel, drag,
\* jump-to-row) carries the search term, sort field and sort direction the
\* session holds at the moment of the event, also for the first key press
\* after a sort or search change that left current row and total unchanged.
C28_NavigationCarriesCurrentSort ==
  [][(NavigationEvent /\ Len(reqs') = Len(reqs) + 1) =>
       LET q == reqs'[Len(reqs')]
       IN /\ q.search = searchTerm
          /\ q.sortBy = sortBy
          /\ q.sortOrder = sortOrder]_vars

(* ---------------------------------------------------------------------- *)
(* Reads leave the store alone                                             *)
(* ---------------------------------------------------------------------- *)
\* the step is a direct call of getCustomers
QueryStep == lastQuery = None /\ lastQuery' /= None

\* the step is the has-data check of a starting session
HasDataStep == appPc = "hasData" /\ appPc' \in {"table", "saveOpen"}

\* C29: queries and the has-data check never modify the persisted store:
\* over any interleaving of queries (both modes, any parameters) and
\* has-data checks the set of persisted records and their field values
\* stay as they were.
C29_ReadsLeaveStoreUnchanged ==
  [][(QueryStep \/ HasDataStep) => store' = store]_vars

\* a session that found data and showed the table without ingesting has
\* queried the full store, which still holds the records as written
C29_Witness ==
  /\ Called
  /\ lastQuery.result.status = "resolved"
  /\ lastQuery.result.data /= <<>>
  /\ appPc = "table"
  /\ processedCount = 0
  /\ committed * BATCH_SIZE = AppTotal
  /\ DOMAIN store = 1..AppTotal
  /\ \A id \in DOMAIN store : store[id] = generateCustomer(id, StartTime)

(* ---------------------------------------------------------------------- *)
(* The progress callback                                                   *)
(* ---------------------------------------------------------------------- *)
\* the step switches the session from the loading screen to the table at
\* the end of its ingestion
IngestionEnds == appPc = "saveYield" /\ isInitialized' /\ ~isInitialized

\* C30: during ingestion the progress callback is invoked exactly once per
\* chunk, only when that chunk's transaction has completed, with current
\* equal to the number of records committed so far; the reported values
\* strictly increase, never exceed totalRecords, and the last one equals
\* totalRecords before the session switches from the loading screen to the
\* table.
C30_ProgressFollowsCommits ==
  [][/\ CommitStep =>
          /\ progress' = progress + Len(txn)
          /\ progress' > progress
          /\ progress' = Count(store')
          /\ progress' = processedCount'
          /\ progress' <= AppTotal
     /\ (progress' /= progress /\ ~CommitStep) => (progress' = 0 /\ appPc' = "hasData")
     /\ IngestionEnds => (progress = AppTotal /\ progress' = AppTotal)]_vars

\* the table is shown by the session that ingested: the last report was
\* the total
C30_Witness ==
  /\ appPc = "table"
  /\ isInitialized
  /\ processedCount = AppTotal
  /\ progress = AppTotal
  /\ committed * BATCH_SIZE >= AppTotal
  /\ Count(store) = AppTotal
====
